---------------------------- MODULE Spec2Model ----------------------------
(***************************************************************************)
(* A model of the space-time-functions library (namespace stf): volumetric *)
(* primitives, geometric transforms, space-time fields and the operators   *)
(* that compose them.                                                      *)
(*                                                                         *)
(* Scalar (double in the source) is modelled by exact arithmetic in the    *)
(* field Q(sqrt 2): the triple <<a, b, d>> stands for (a + b*sqrt(2)) / d  *)
(* with d > 0 and gcd(a, b, d) = 1.  Square roots are taken exactly; the   *)
(* inputs the model draws are those whose square roots stay in the field.  *)
(* Rounding of doubles is therefore not modelled.                          *)
(*                                                                         *)
(* Vectors (std::array<Scalar, dim>) are sequences of scalars, matrices    *)
(* are sequences of rows, both 1-based: source index i is model index i+1. *)
(***************************************************************************)
EXTENDS Integers, Sequences, FiniteSets, TLC

VARIABLES
    build,   \* what the toolchain decided: [absInt |-> BOOLEAN]
    pc,      \* position of the caller: "idle", "built", "done"
    obj,     \* the object under construction / constructed (a record tree)
    query,   \* arguments of the evaluation call being served
    result   \* what the evaluation call returned

vars == <<build, pc, obj, query, result>>

-----------------------------------------------------------------------------
(* Integer helpers *)

RECURSIVE GCD(_, _)
GCD(m, n) == IF n = 0 THEN m ELSE GCD(n, m % n)

IAbs(n) == IF n < 0 THEN -n ELSE n

RECURSIVE ISqrtFrom(_, _, _)
\* the largest r in lo..hi with r * r <= n, by bisection
ISqrtFrom(n, lo, hi) ==
    IF lo >= hi THEN lo
    ELSE IF ((lo + hi + 1) \div 2) * ((lo + hi + 1) \div 2) > n
         THEN ISqrtFrom(n, lo, (lo + hi + 1) \div 2 - 1)
         ELSE ISqrtFrom(n, (lo + hi + 1) \div 2, hi)

\* floor of the square root of n >= 0
ISqrt(n) == ISqrtFrom(n, 0, IF n < 46340 THEN n ELSE 46340)

IsSquare(n) == n >= 0 /\ ISqrt(n) * ISqrt(n) = n

-----------------------------------------------------------------------------
(* Scalar: exact arithmetic in Q(sqrt 2) *)

Reduce(a, b, d, g) == <<a \div g, b \div g, d \div g>>

\* lowest terms with a positive denominator
Normal(a, b, d) ==
    Reduce(a, b, d, (IF d < 0 THEN -1 ELSE 1) * GCD(GCD(IAbs(a), IAbs(b)), IAbs(d)))

Rat(n, d) == Normal(n, 0, d)
Num(n) == <<n, 0, 1>>
Zero == <<0, 0, 1>>
One == <<1, 0, 1>>
Two == <<2, 0, 1>>
Half == <<1, 0, 2>>
Sqrt2 == <<0, 1, 1>>

Neg(x) == <<-x[1], -x[2], x[3]>>

AddOver(x, y, fx, fy) ==
    Normal(x[1] * fx + y[1] * fy, x[2] * fx + y[2] * fy, x[3] * fx)

\* equal denominators add directly; otherwise over the least common denominator
Add(x, y) ==
    IF x[3] = y[3] THEN Normal(x[1] + y[1], x[2] + y[2], x[3])
    ELSE AddOver(x, y, y[3] \div GCD(x[3], y[3]), x[3] \div GCD(x[3], y[3]))

Sub(x, y) == Add(x, Neg(y))

\* common factors are cancelled across the two operands before multiplying
MulCancelled(xa, xb, xd, ya, yb, yd) ==
    Normal(xa * ya + 2 * xb * yb, xa * yb + xb * ya, xd * yd)

MulWith(x, y, gx, gy) ==
    MulCancelled(x[1] \div gx, x[2] \div gx, x[3] \div gy,
                 y[1] \div gy, y[2] \div gy, y[3] \div gx)

Mul(x, y) ==
    IF (x[1] = 0 /\ x[2] = 0) \/ (y[1] = 0 /\ y[2] = 0) THEN <<0, 0, 1>>
    ELSE MulWith(x, y, GCD(GCD(IAbs(x[1]), IAbs(x[2])), y[3]),
                       GCD(GCD(IAbs(y[1]), IAbs(y[2])), x[3]))

IsZero(x) == x[1] = 0 /\ x[2] = 0

\* 1 / x for x # 0: d / (a + b sqrt2) = d (a - b sqrt2) / (a^2 - 2 b^2)
Inv(x) == Normal(x[3] * x[1], -(x[3] * x[2]), x[1] * x[1] - 2 * x[2] * x[2])

Div(x, y) == Mul(x, Inv(y))

\* sign of p/q - sqrt(2) for p >= 0, q > 0, by continued fractions (no products)
RECURSIVE CmpSqrt2(_, _)
CmpSqrt2(p, q) ==
    IF p >= 2 * q THEN 1
    ELSE IF p <= q THEN -1
    ELSE -CmpSqrt2(2 * q - p, p - q)

\* sign of a + b sqrt2
Sign(x) ==
    IF x[1] = 0 /\ x[2] = 0 THEN 0
    ELSE IF x[1] >= 0 /\ x[2] >= 0 THEN 1
    ELSE IF x[1] <= 0 /\ x[2] <= 0 THEN -1
    ELSE IF x[1] > 0 THEN CmpSqrt2(x[1], -x[2])
    ELSE -CmpSqrt2(-x[1], x[2])

Lt(x, y) == Sign(Sub(x, y)) < 0
Le(x, y) == Sign(Sub(x, y)) <= 0
Gt(x, y) == Lt(y, x)
Ge(x, y) == Le(y, x)

\* std::min / std::max / std::abs on doubles
Min(x, y) == IF Lt(y, x) THEN y ELSE x
Max(x, y) == IF Lt(x, y) THEN y ELSE x
Abs(x) == IF Sign(x) < 0 THEN Neg(x) ELSE x

\* std::sqrt, where the root stays in Q(sqrt 2): x = q^2 or x = 2 q^2
SqrtDefined(x) ==
    /\ x[2] = 0
    /\ x[1] >= 0
    /\ (IsSquare(x[1] * x[3]) \/ IsSquare(2 * x[1] * x[3]))

Sqrt(x) ==
    IF IsSquare(x[1] * x[3])
    THEN Normal(ISqrt(x[1] * x[3]), 0, x[3])
    ELSE Normal(0, ISqrt(2 * x[1] * x[3]), 2 * x[3])

\* conversion double -> int (truncation toward zero) -> double
RECURSIVE TruncFrom(_, _)
TruncFrom(x, n) == IF Lt(x, Num(n + 1)) THEN n ELSE TruncFrom(x, n + 1)

Trunc(x) == IF Sign(x) < 0 THEN Num(-TruncFrom(Neg(x), 0)) ELSE Num(TruncFrom(x, 0))

-----------------------------------------------------------------------------
(* maths_2d.h / maths_3d.h: fixed-size vectors and matrices *)

RECURSIVE SumTo(_, _)
\* f[1] + ... + f[n], accumulated from 0 as the source loops do
SumTo(f, n) == IF n = 0 THEN Zero ELSE Add(SumTo(f, n - 1), f[n])

\* std::array: a value, computed once when it is built
Array(f) == SubSeq(f, 1, Len(f))

dot(a, b) == SumTo([i \in 1..Len(a) |-> Mul(a[i], b[i])], Len(a))

cross(a, b) ==
    << Sub(Mul(a[2], b[3]), Mul(a[3], b[2])),
       Sub(Mul(a[3], b[1]), Mul(a[1], b[3])),
       Sub(Mul(a[1], b[2]), Mul(a[2], b[1])) >>

norm(v) == Sqrt(dot(v, v))

\* normalize() throws std::runtime_error("Zero-length vector") when n < 1e-8
NormalizeThrows(v) == Lt(norm(v), Rat(1, 100000000))

normalize(v) == Array([i \in 1..Len(v) |-> Div(v[i], norm(v))])

identityMatrix(n) ==
    Array([i \in 1..n |-> Array([j \in 1..n |-> IF i = j THEN One ELSE Zero])])

zeroMatrix(n) == Array([i \in 1..n |-> Array([j \in 1..n |-> Zero])])

skew(v) ==
    << <<Zero, Neg(v[3]), v[2]>>,
       <<v[3], Zero, Neg(v[1])>>,
       <<Neg(v[2]), v[1], Zero>> >>

addMat(A, B) ==
    Array([i \in 1..Len(A) |-> Array([j \in 1..Len(A) |-> Add(A[i][j], B[i][j])])])

scaleMat(A, s) ==
    Array([i \in 1..Len(A) |-> Array([j \in 1..Len(A) |-> Mul(A[i][j], s)])])

multiply(A, B) ==
    Array([i \in 1..Len(A) |-> Array([j \in 1..Len(A) |->
        SumTo([k \in 1..Len(A) |-> Mul(A[i][k], B[k][j])], Len(A))])])

apply_matrix(M, v) ==
    Array([i \in 1..Len(M) |->
        SumTo([k \in 1..Len(v) |-> Mul(M[i][k], v[k])], Len(v))])

transpose(M) == Array([i \in 1..Len(M) |-> Array([j \in 1..Len(M) |-> M[j][i]])])

addVec(a, b) == Array([i \in 1..Len(a) |-> Add(a[i], b[i])])
subtract(a, b) == Array([i \in 1..Len(a) |-> Sub(a[i], b[i])])
scaleVec(a, s) == Array([i \in 1..Len(a) |-> Mul(a[i], s)])

\* {{c, -s}, {s, c}}
rotation_matrix2_of(c, s) == << <<c, Neg(s)>>, <<s, c>> >>

rotation_matrix2_unit(u, v) ==
    rotation_matrix2_of(dot(u, v), Sub(Mul(u[1], v[2]), Mul(u[2], v[1])))

\* Mat2 rotation_matrix(from, to)
rotation_matrix2(from, to) == rotation_matrix2_unit(normalize(from), normalize(to))

\* the 180-degree case: K K is computed but the matrix returned is I + 2 K
rotation_matrix3_around(axis) == addMat(identityMatrix(3), scaleMat(skew(axis), Two))

rotation_matrix3_pick(v1, axis) ==
    IF Lt(norm(axis), Rat(1, 1000000)) THEN cross(v1, <<Zero, One, Zero>>) ELSE axis

rotation_matrix3_opposite(v1) ==
    rotation_matrix3_around(
        normalize(rotation_matrix3_pick(v1, cross(v1, <<One, Zero, Zero>>))))

rotation_matrix3_rodrigues(K, s, c) ==
    addMat(addMat(identityMatrix(3), scaleMat(K, s)),
           scaleMat(multiply(K, K), Sub(One, c)))

rotation_matrix3_general(v1, v2, c) ==
    rotation_matrix3_rodrigues(skew(normalize(cross(v1, v2))),
                               Sqrt(Sub(One, Mul(c, c))), c)

rotation_matrix3_cases(v1, v2, c) ==
    IF Gt(c, Rat(999999, 1000000)) THEN identityMatrix(3)
    ELSE IF Lt(c, Rat(-999999, 1000000)) THEN rotation_matrix3_opposite(v1)
    ELSE rotation_matrix3_general(v1, v2, c)

rotation_matrix3_unit(v1, v2) == rotation_matrix3_cases(v1, v2, dot(v1, v2))

\* Mat3 rotation_matrix(from, to): Rodrigues' formula with its two special cases
rotation_matrix3(from, to) == rotation_matrix3_unit(normalize(from), normalize(to))

rotation_matrix(from, to) ==
    IF Len(from) = 2 THEN rotation_matrix2(from, to) ELSE rotation_matrix3(from, to)

-----------------------------------------------------------------------------
(* Virtual dispatch: the three abstract contracts.  An object is a record  *)
(* whose field "type" names its class and whose other fields are the       *)
(* class's data members.                                                   *)

RECURSIVE Dispatch(_, _, _, _)

\* ImplicitFunction<dim>: value(pos), gradient(pos)
ImplicitFunction_value(f, pos) == Dispatch(f, "value", pos, Zero)
ImplicitFunction_gradient(f, pos) == Dispatch(f, "gradient", pos, Zero)

\* Transform<dim>: transform(pos, t), velocity(pos, t), position_Jacobian(pos, t)
Transform_transform(T, pos, t) == Dispatch(T, "transform", pos, t)
Transform_velocity(T, pos, t) == Dispatch(T, "velocity", pos, t)
Transform_position_Jacobian(T, pos, t) == Dispatch(T, "position_Jacobian", pos, t)

\* SpaceTimeFunction<dim>: value(pos, t), time_derivative(pos, t), gradient(pos, t)
SpaceTimeFunction_value(F, pos, t) == Dispatch(F, "value", pos, t)
SpaceTimeFunction_time_derivative(F, pos, t) == Dispatch(F, "time_derivative", pos, t)
SpaceTimeFunction_gradient(F, pos, t) == Dispatch(F, "gradient", pos, t)

-----------------------------------------------------------------------------
(* primitives/generic_function.h: a primitive given by two caller-supplied  *)
(* callables.  The callables the model supplies are a plane                 *)
(* (value n.pos + c, gradient n) and a paraboloid (value |pos - c|^2 - r,   *)
(* gradient 2 (pos - c)).                                                   *)

value_func(fn, pos) ==
    IF fn.kind = "plane"
    THEN Add(dot(fn.n, pos), fn.c)
    ELSE Sub(dot(subtract(pos, fn.center), subtract(pos, fn.center)), fn.r)

gradient_func(fn, pos) ==
    IF fn.kind = "plane"
    THEN fn.n
    ELSE scaleVec(subtract(pos, fn.center), Two)

GenericFunction(vf, gf) ==
    [type |-> "GenericFunction", m_value_func |-> vf, m_gradient_func |-> gf]

GenericFunction_value(f, pos) == value_func(f.m_value_func, pos)

GenericFunction_gradient(f, pos) == gradient_func(f.m_gradient_func, pos)

-----------------------------------------------------------------------------
(* transforms/translation.h *)

Translation(translation) == [type |-> "Translation", m_translation |-> translation]

Translation_transform(T, pos, t) ==
    [i \in 1..Len(pos) |-> Add(pos[i], Mul(T.m_translation[i], t))]

Translation_velocity(T, pos, t) == T.m_translation

Translation_position_Jacobian(T, pos, t) == identityMatrix(Len(pos))

-----------------------------------------------------------------------------
(* transforms/scale.h *)

Scale(factors, center) == [type |-> "Scale", m_factors |-> factors, m_center |-> center]

Scale_transform(T, pos, t) ==
    [i \in 1..Len(pos) |->
        Add(Mul(Sub(pos[i], T.m_center[i]),
                Add(One, Mul(Sub(T.m_factors[i], One), t))),
            T.m_center[i])]

Scale_velocity(T, pos, t) ==
    [i \in 1..Len(pos) |-> Mul(Sub(pos[i], T.m_center[i]), Sub(T.m_factors[i], One))]

Scale_position_Jacobian(T, pos, t) ==
    [i \in 1..Len(pos) |-> [j \in 1..Len(pos) |->
        IF i = j THEN Add(One, Mul(Sub(T.m_factors[i], One), t)) ELSE Zero]]

-----------------------------------------------------------------------------
(* transforms/polyline.h *)

\* the reference axis rotated onto the first tangent: z in 3D, y in 2D
ReferenceAxis(dim) == [i \in 1..dim |-> IF i = dim THEN One ELSE Zero]

\* to_vector of segment i (0-based): m_points[i + 1] - m_points[i]
Polyline_to_vector(points, i) == subtract(points[i + 2], points[i + 1])

RECURSIVE Polyline_frames_upto(_, _)
\* m_frames after the loop body has run for segments 0 .. k-1
Polyline_frames_upto(points, k) ==
    LET Push(prev, R) == IF k = 1 THEN << R >> ELSE Append(prev, multiply(R, prev[k - 1]))
    IN  IF k = 0 THEN << >>
        ELSE Push(Polyline_frames_upto(points, k - 1),
                  rotation_matrix(IF k = 1 THEN ReferenceAxis(Len(points[1]))
                                  ELSE Polyline_to_vector(points, k - 2),
                                  Polyline_to_vector(points, k - 1)))

Polyline_initialize_bishop_frames(points) == Polyline_frames_upto(points, Len(points) - 1)

Polyline_initialize_identity_frames(points) ==
    [i \in 1..(Len(points) - 1) |-> identityMatrix(Len(points[1]))]

\* the constructor throws: fewer than 2 points, or normalize() of a zero-length segment
Polyline_ctor_throws(points, follow_tangent) ==
    \/ Len(points) < 2
    \/ /\ follow_tangent
       /\ \E i \in 0..(Len(points) - 2) : NormalizeThrows(Polyline_to_vector(points, i))

\* what() of the exception the constructor throws: the size check comes first
Polyline_ctor_what(points, follow_tangent) ==
    IF Len(points) < 2 THEN "Polyline must consist of at least 2 points."
    ELSE "Zero-length vector"

Polyline(points, follow_tangent) ==
    [type |-> "Polyline",
     m_points |-> points,
     m_frames |-> IF follow_tangent THEN Polyline_initialize_bishop_frames(points)
                  ELSE Polyline_initialize_identity_frames(points),
     m_follow_tangent |-> follow_tangent]

\* std::tuple<size_t, Scalar> find_segment(t); the segment index is 0-based
Polyline_find_segment(T, t) ==
    LET Found(segment) ==
            [segment |-> segment,
             alpha |-> Sub(Mul(t, Num(Len(T.m_points) - 1)), Num(segment))]
        Clamp(raw) == Found(IF raw < Len(T.m_points) - 2 THEN raw ELSE Len(T.m_points) - 2)
    IN  Clamp(TruncFrom(Mul(Max(Zero, t), Num(Len(T.m_points) - 1)), 0))

Polyline_transform(T, pos, t) ==
    LET On(segment, alpha) ==
            LET Between(p0, p1) ==
                    [i \in 1..Len(pos) |->
                        Sub(pos[i], Add(p0[i], Mul(alpha, Sub(p1[i], p0[i]))))]
            IN  apply_matrix(transpose(T.m_frames[segment + 1]),
                             Between(T.m_points[segment + 1], T.m_points[segment + 2]))
        At(sa) == On(sa.segment, sa.alpha)
    IN  At(Polyline_find_segment(T, t))


\* the velocity with the displacement taken forwards, p1 - p0
Polyline_velocity_forward(T, pos, t) ==
    LET On(segment) ==
            LET Between(p0, p1) ==
                    [i \in 1..Len(pos) |->
                        Mul(Sub(p1[i], p0[i]), Num(Len(T.m_points) - 1))]
            IN  apply_matrix(transpose(T.m_frames[segment + 1]),
                             Between(T.m_points[segment + 1], T.m_points[segment + 2]))
    IN  On(Polyline_find_segment(T, t).segment)

Polyline_velocity(T, pos, t) ==
    LET On(segment) ==
            LET Between(p0, p1) ==
                    [i \in 1..Len(pos) |->
                        Mul(Sub(p0[i], p1[i]), Num(Len(T.m_points) - 1))]
            IN  apply_matrix(transpose(T.m_frames[segment + 1]),
                             Between(T.m_points[segment + 1], T.m_points[segment + 2]))
    IN  On(Polyline_find_segment(T, t).segment)

Polyline_position_Jacobian(T, pos, t) ==
    transpose(T.m_frames[Polyline_find_segment(T, t).segment + 1])

-----------------------------------------------------------------------------
(* transforms/compose.h *)

Compose(transform1, transform2) ==
    [type |-> "Compose", m_transform1 |-> transform1, m_transform2 |-> transform2]

Compose_transform(T, pos, t) ==
    LET intermediate == Transform_transform(T.m_transform1, pos, t)
    IN  Transform_transform(T.m_transform2, intermediate, t)

Compose_velocity(T, pos, t) ==
    LET At(intermediate) ==
            LET Chain(v1, v2, J2) ==
                    [i \in 1..Len(pos) |->
                        Add(v2[i],
                            SumTo([k \in 1..Len(pos) |-> Mul(J2[i][k], v1[k])], Len(pos)))]
            IN  Chain(Transform_velocity(T.m_transform1, pos, t),
                      Transform_velocity(T.m_transform2, intermediate, t),
                      Transform_position_Jacobian(T.m_transform2, intermediate, t))
    IN  At(Transform_transform(T.m_transform1, pos, t))

\* Compose::position_Jacobian multiplying the two Jacobians entry by entry
Compose_position_Jacobian_elementwise(T, pos, t) ==
    LET Product(J1, J2) ==
            [i \in 1..Len(pos) |-> [j \in 1..Len(pos) |-> Mul(J2[i][j], J1[i][j])]]
        At(intermediate) ==
            Product(Transform_position_Jacobian(T.m_transform1, pos, t),
                    Transform_position_Jacobian(T.m_transform2, intermediate, t))
    IN  At(Transform_transform(T.m_transform1, pos, t))

Compose_position_Jacobian(T, pos, t) ==
    LET Product(J1, J2) ==
            [i \in 1..Len(pos) |-> [j \in 1..Len(pos) |->
                SumTo([k \in 1..Len(pos) |-> Mul(J2[i][k], J1[k][j])], Len(pos))]]
        At(intermediate) ==
            Product(Transform_position_Jacobian(T.m_transform1, pos, t),
                    Transform_position_Jacobian(T.m_transform2, intermediate, t))
    IN  At(Transform_transform(T.m_transform1, pos, t))

-----------------------------------------------------------------------------
(* primitives/implicit_union.h *)

ImplicitUnion(UnionType, f1, f2, smooth_distance) ==
    [type |-> "ImplicitUnion", UnionType |-> UnionType,
     m_f1 |-> f1, m_f2 |-> f2, m_smooth_distance |-> smooth_distance]

\* The unqualified call abs(a - b) in ImplicitUnion::value.  <cmath> need not
\* declare ::abs(double); where it does not, the call binds to ::abs(int) and the
\* argument is truncated to an integer.  Which one holds is a property of the build.
UnqualifiedAbs(x) == IF build.absInt THEN Abs(Trunc(x)) ELSE Abs(x)

\* the width of the Quadratic kernel taken for every kernel
ImplicitUnion_k_quadratic(UnionType, s) == Mul(s, Num(4))

\* the transition width k of each blending function
ImplicitUnion_k(UnionType, s) ==
    CASE UnionType = "Quadratic" -> Mul(s, Num(4))
      [] UnionType = "Cubic" -> Mul(s, Num(6))
      [] UnionType = "Quartic" -> Div(Mul(s, Num(16)), Num(3))
      [] UnionType = "Circular" -> Div(Mul(s, One), Sub(One, Sqrt(Half)))

\* h as ImplicitUnion::value computes it
ImplicitUnion_value_h(UnionType, a, b, s) ==
    LET H(k) == Div(Max(Sub(k, UnqualifiedAbs(Sub(a, b))), Zero), k)
    IN  H(ImplicitUnion_k(UnionType, s))

ImplicitUnion_blend(UnionType, a, b, s) ==
    LET Blend(k, h) ==
            CASE UnionType = "Quadratic" ->
                   Sub(Min(a, b), Mul(Mul(Mul(h, h), k), Rat(1, 4)))
              [] UnionType = "Cubic" ->
                   Sub(Min(a, b), Mul(Mul(Mul(Mul(h, h), h), k), Rat(1, 6)))
              [] UnionType = "Quartic" ->
                   Sub(Min(a, b),
                       Mul(Mul(Mul(Mul(Mul(h, h), h), Sub(Num(4), h)), k), Rat(1, 16)))
              [] UnionType = "Circular" ->
                   Sub(Min(a, b),
                       Mul(Mul(k, Half),
                           Sub(Add(One, h), Sqrt(Sub(One, Mul(h, Sub(h, Two)))))))
    IN  Blend(ImplicitUnion_k(UnionType, s), ImplicitUnion_value_h(UnionType, a, b, s))


\* ImplicitUnion::value taking the larger operand when there is no smoothing
ImplicitUnion_value_max(f, pos) ==
    LET Of(a, b) ==
            IF Gt(f.m_smooth_distance, Zero)
            THEN ImplicitUnion_blend(f.UnionType, a, b, f.m_smooth_distance)
            ELSE Max(a, b)
    IN  Of(ImplicitFunction_value(f.m_f1, pos), ImplicitFunction_value(f.m_f2, pos))

ImplicitUnion_value(f, pos) ==
    LET Of(a, b) ==
            IF Gt(f.m_smooth_distance, Zero)
            THEN ImplicitUnion_blend(f.UnionType, a, b, f.m_smooth_distance)
            ELSE Min(a, b)
    IN  Of(ImplicitFunction_value(f.m_f1, pos), ImplicitFunction_value(f.m_f2, pos))

\* coeff of the blending region, from h and sign
ImplicitUnion_coeff(UnionType, h, sign) ==
    CASE UnionType = "Quadratic" -> Div(Mul(Neg(h), sign), Two)
      [] UnionType = "Cubic" -> Div(Mul(Mul(Neg(h), h), sign), Two)
      [] UnionType = "Quartic" ->
           Mul(Neg(Sub(Mul(Mul(Mul(Rat(3, 16), h), h), Sub(Num(4), h)),
                       Div(Mul(Mul(h, h), h), Num(16)))),
               sign)
      [] UnionType = "Circular" ->
           Mul(Mul(Rat(-1, 2),
                   Add(One, Div(Sub(h, One), Sqrt(Sub(One, Mul(h, Sub(h, Two))))))),
               sign)

ImplicitUnion_gradient(f, pos) ==
    LET Of(a, b, grad_a, grad_b) ==
            LET Mix(a_is_smaller, coeff) ==
                    [i \in 1..Len(pos) |->
                        Sub(IF a_is_smaller THEN grad_a[i] ELSE grad_b[i],
                            Mul(coeff, Sub(grad_a[i], grad_b[i])))]
                Smooth(k, abs_diff, a_is_smaller) ==
                    IF Ge(abs_diff, k)
                    THEN (IF Lt(a, b) THEN grad_a ELSE grad_b)
                    ELSE Mix(a_is_smaller,
                             ImplicitUnion_coeff(f.UnionType, Div(Sub(k, abs_diff), k),
                                                 IF a_is_smaller THEN Num(-1) ELSE One))
            IN  IF Gt(f.m_smooth_distance, Zero)
                THEN Smooth(ImplicitUnion_k(f.UnionType, f.m_smooth_distance),
                            Abs(Sub(a, b)), Lt(a, b))
                ELSE (IF Lt(a, b) THEN grad_a ELSE grad_b)
    IN  Of(ImplicitFunction_value(f.m_f1, pos), ImplicitFunction_value(f.m_f2, pos),
           ImplicitFunction_gradient(f.m_f1, pos), ImplicitFunction_gradient(f.m_f2, pos))

-----------------------------------------------------------------------------
(* sweep_function.h *)

SweepFunction(implicit_function, transform) ==
    [type |-> "SweepFunction", m_implicit_function |-> implicit_function,
     m_transform |-> transform]

SweepFunction_value(F, pos, t) ==
    LET transformed_pos == Transform_transform(F.m_transform, pos, t)
    IN  ImplicitFunction_value(F.m_implicit_function, transformed_pos)

SweepFunction_time_derivative(F, pos, t) ==
    LET Dot(spacial_grad, velocity) ==
            SumTo([i \in 1..Len(pos) |-> Mul(spacial_grad[i], velocity[i])], Len(pos))
    IN  Dot(ImplicitFunction_gradient(F.m_implicit_function,
                                      Transform_transform(F.m_transform, pos, t)),
            Transform_velocity(F.m_transform, pos, t))

\* SweepFunction::gradient with the Jacobian applied untransposed
SweepFunction_gradient_untransposed(F, pos, t) ==
    LET Apply(g_f, J) ==
            [i \in 1..(Len(pos) + 1) |->
                IF i <= Len(pos)
                THEN SumTo([k \in 1..Len(pos) |-> Mul(J[i][k], g_f[k])], Len(pos))
                ELSE SweepFunction_time_derivative(F, pos, t)]
    IN  Apply(ImplicitFunction_gradient(F.m_implicit_function,
                                        Transform_transform(F.m_transform, pos, t)),
              Transform_position_Jacobian(F.m_transform, pos, t))

SweepFunction_gradient(F, pos, t) ==
    LET Apply(g_f, J) ==
            [i \in 1..(Len(pos) + 1) |->
                IF i <= Len(pos)
                THEN SumTo([k \in 1..Len(pos) |-> Mul(J[k][i], g_f[k])], Len(pos))
                ELSE SweepFunction_time_derivative(F, pos, t)]
    IN  Apply(ImplicitFunction_gradient(F.m_implicit_function,
                                        Transform_transform(F.m_transform, pos, t)),
              Transform_position_Jacobian(F.m_transform, pos, t))

-----------------------------------------------------------------------------
(* union_function.h *)

UnionFunction(f1, f2, smooth_distance) ==
    [type |-> "UnionFunction", m_f1 |-> f1, m_f2 |-> f2,
     m_smooth_distance |-> smooth_distance]

\* the constructor throws std::invalid_argument
UnionFunction_ctor_throws(smooth_distance) == Lt(smooth_distance, Zero)

UnionFunction_value(F, pos, t) ==
    LET Of(a, b) ==
            LET Blend(k, h) == Sub(Min(a, b), Mul(Mul(Mul(h, h), k), Rat(1, 4)))
                With(k) == Blend(k, Div(Max(Sub(k, Abs(Sub(a, b))), Zero), k))
            IN  IF Gt(F.m_smooth_distance, Zero)
                THEN With(Mul(F.m_smooth_distance, Num(4)))
                ELSE Min(a, b)
    IN  Of(SpaceTimeFunction_value(F.m_f1, pos, t), SpaceTimeFunction_value(F.m_f2, pos, t))


\* the component rule without the branch for equal operand values
UnionFunction_component_no_tie(s, a, b, da, db) ==
    LET Mix(a_is_smaller, coeff) ==
            Sub(IF a_is_smaller THEN da ELSE db, Mul(coeff, Sub(da, db)))
        Smooth(k, abs_diff, a_is_smaller) ==
            IF Ge(abs_diff, k)
            THEN (IF a_is_smaller THEN da ELSE db)
            ELSE Mix(a_is_smaller,
                     Div(Mul(Neg(Div(Sub(k, abs_diff), k)),
                             IF a_is_smaller THEN Num(-1) ELSE One),
                         Two))
    IN  IF Gt(s, Zero)
        THEN Smooth(Mul(s, Num(4)), Abs(Sub(a, b)), Lt(a, b))
        ELSE IF Lt(a, b) THEN da
        ELSE db

\* the rule both time_derivative and gradient apply to one derivative component
UnionFunction_component(s, a, b, da, db) ==
    LET Mix(a_is_smaller, coeff) ==
            Sub(IF a_is_smaller THEN da ELSE db, Mul(coeff, Sub(da, db)))
        Smooth(k, abs_diff, a_is_smaller) ==
            IF Ge(abs_diff, k)
            THEN (IF a_is_smaller THEN da ELSE db)
            ELSE Mix(a_is_smaller,
                     Div(Mul(Neg(Div(Sub(k, abs_diff), k)),
                             IF a_is_smaller THEN Num(-1) ELSE One),
                         Two))
    IN  IF Gt(s, Zero)
        THEN Smooth(Mul(s, Num(4)), Abs(Sub(a, b)), Lt(a, b))
        ELSE IF Lt(a, b) THEN da
        ELSE IF Lt(b, a) THEN db
        ELSE Div(Add(da, db), Two)

UnionFunction_time_derivative(F, pos, t) ==
    UnionFunction_component(F.m_smooth_distance,
        SpaceTimeFunction_value(F.m_f1, pos, t),
        SpaceTimeFunction_value(F.m_f2, pos, t),
        SpaceTimeFunction_time_derivative(F.m_f1, pos, t),
        SpaceTimeFunction_time_derivative(F.m_f2, pos, t))

UnionFunction_gradient(F, pos, t) ==
    LET Of(a, b, grad_a, grad_b) ==
            [i \in 1..(Len(pos) + 1) |->
                UnionFunction_component(F.m_smooth_distance, a, b, grad_a[i], grad_b[i])]
    IN  Of(SpaceTimeFunction_value(F.m_f1, pos, t), SpaceTimeFunction_value(F.m_f2, pos, t),
           SpaceTimeFunction_gradient(F.m_f1, pos, t),
           SpaceTimeFunction_gradient(F.m_f2, pos, t))

-----------------------------------------------------------------------------
(* blend_function.h *)

BlendFunction(f1, f2) == [type |-> "BlendFunction", m_f1 |-> f1, m_f2 |-> f2]

BlendFunction_value(F, pos, t) ==
    Add(Mul(SpaceTimeFunction_value(F.m_f1, pos, t), Sub(One, t)),
        Mul(SpaceTimeFunction_value(F.m_f2, pos, t), t))


\* the time derivative without the terms that come from differentiating (1-t, t)
BlendFunction_time_derivative_frozen(F, pos, t) ==
    Add(Mul(SpaceTimeFunction_time_derivative(F.m_f1, pos, t), Sub(One, t)),
        Mul(SpaceTimeFunction_time_derivative(F.m_f2, pos, t), t))

BlendFunction_time_derivative(F, pos, t) ==
    Add(Sub(Add(Mul(SpaceTimeFunction_time_derivative(F.m_f1, pos, t), Sub(One, t)),
                Mul(SpaceTimeFunction_time_derivative(F.m_f2, pos, t), t)),
            SpaceTimeFunction_value(F.m_f1, pos, t)),
        SpaceTimeFunction_value(F.m_f2, pos, t))

BlendFunction_gradient(F, pos, t) ==
    LET grad_f1 == SpaceTimeFunction_gradient(F.m_f1, pos, t)
        grad_f2 == SpaceTimeFunction_gradient(F.m_f2, pos, t)
    IN  [i \in 1..(Len(pos) + 1) |->
            IF i <= Len(pos)
            THEN Add(Mul(grad_f1[i], Sub(One, t)), Mul(grad_f2[i], t))
            ELSE BlendFunction_time_derivative(F, pos, t)]

-----------------------------------------------------------------------------
(* interpolate_function.h.  The two callables are supplied together by the   *)
(* caller; the model supplies the defaults (t, 1) and the pair (t^2, 2t).   *)

interpolation_func(fn, t) == IF fn = "default" THEN t ELSE Mul(t, t)

interpolation_derivative(fn, t) == IF fn = "default" THEN One ELSE Mul(Two, t)

InterpolateFunction(f1, f2, func, derivative) ==
    [type |-> "InterpolateFunction", m_f1 |-> f1, m_f2 |-> f2,
     m_interpolation_func |-> func, m_interpolation_derivative |-> derivative]

InterpolateFunction_value(F, pos, t) ==
    LET s == interpolation_func(F.m_interpolation_func, t)
    IN  Add(Mul(SpaceTimeFunction_value(F.m_f1, pos, t), Sub(One, s)),
            Mul(SpaceTimeFunction_value(F.m_f2, pos, t), s))


\* the time derivative with the derivative callable taken to be 1
InterpolateFunction_time_derivative_linear(F, pos, t) ==
    LET s == interpolation_func(F.m_interpolation_func, t)
    IN  Add(Sub(Add(Mul(SpaceTimeFunction_time_derivative(F.m_f1, pos, t), Sub(One, s)),
                    Mul(SpaceTimeFunction_time_derivative(F.m_f2, pos, t), s)),
                SpaceTimeFunction_value(F.m_f1, pos, t)),
            SpaceTimeFunction_value(F.m_f2, pos, t))

InterpolateFunction_time_derivative(F, pos, t) ==
    LET s == interpolation_func(F.m_interpolation_func, t)
        ds_dt == interpolation_derivative(F.m_interpolation_derivative, t)
    IN  Add(Sub(Add(Mul(SpaceTimeFunction_time_derivative(F.m_f1, pos, t), Sub(One, s)),
                    Mul(SpaceTimeFunction_time_derivative(F.m_f2, pos, t), s)),
                Mul(SpaceTimeFunction_value(F.m_f1, pos, t), ds_dt)),
            Mul(SpaceTimeFunction_value(F.m_f2, pos, t), ds_dt))

InterpolateFunction_gradient(F, pos, t) ==
    LET grad_f1 == SpaceTimeFunction_gradient(F.m_f1, pos, t)
        grad_f2 == SpaceTimeFunction_gradient(F.m_f2, pos, t)
        s == interpolation_func(F.m_interpolation_func, t)
    IN  [i \in 1..(Len(pos) + 1) |->
            IF i <= Len(pos)
            THEN Add(Mul(grad_f1[i], Sub(One, s)), Mul(grad_f2[i], s))
            ELSE InterpolateFunction_time_derivative(F, pos, t)]

-----------------------------------------------------------------------------
(* offset_function.h.  The callables the model supplies are the defaults    *)
(* (0, 0) and an affine signal o(t) = c t + c0 with derivative c.           *)

offset_func(fn, t) == IF fn.kind = "default" THEN Zero ELSE Add(Mul(fn.c, t), fn.c0)

offset_derivative(fn, t) == IF fn.kind = "default" THEN Zero ELSE fn.c

OffsetFunction(f, func, derivative) ==
    [type |-> "OffsetFunction", m_f |-> f,
     m_offset_func |-> func, m_offset_derivative |-> derivative]


\* the value of the base function, without the offset
OffsetFunction_value_base(F, pos, t) == SpaceTimeFunction_value(F.m_f, pos, t)

OffsetFunction_value(F, pos, t) ==
    Add(SpaceTimeFunction_value(F.m_f, pos, t), offset_func(F.m_offset_func, t))

OffsetFunction_time_derivative(F, pos, t) ==
    Add(SpaceTimeFunction_time_derivative(F.m_f, pos, t),
        offset_derivative(F.m_offset_derivative, t))


\* OffsetFunction::gradient returning the inner gradient unchanged
OffsetFunction_gradient_inner(F, pos, t) ==
    LET grad == SpaceTimeFunction_gradient(F.m_f, pos, t)
    IN  [i \in 1..(Len(pos) + 1) |-> grad[i]]

OffsetFunction_gradient(F, pos, t) ==
    LET grad == SpaceTimeFunction_gradient(F.m_f, pos, t)
    IN  [i \in 1..(Len(pos) + 1) |->
            IF i <= Len(pos) THEN grad[i]
            ELSE Add(grad[i], offset_derivative(F.m_offset_derivative, t))]

-----------------------------------------------------------------------------
(* primitives/implicit_ball.h, implicit_capsule.h, implicit_torus.h, duchon.h: *)
(* the constructors                                                            *)

ImplicitBall(radius, center) ==
    [type |-> "ImplicitBall", m_radius |-> radius, m_center |-> center]

ImplicitCapsule(radius, p1, p2) ==
    [type |-> "ImplicitCapsule", m_radius |-> radius, m_p1 |-> p1, m_p2 |-> p2]

\* len < 1e-10, compared in two steps of 1e-5 to stay in the integer width
ImplicitTorus_normal_invalid(len) ==
    /\ Lt(len, Rat(1, 100000))
    /\ Lt(Mul(len, Num(100000)), Rat(1, 100000))

\* m_normal: the unit normal, or the Z axis for an invalid one
ImplicitTorus_normal(normal) ==
    IF ImplicitTorus_normal_invalid(norm(normal)) THEN << Zero, Zero, One >>
    ELSE Array([i \in 1..3 |-> Div(normal[i], norm(normal))])

\* compute_basis: m_u = ref x m_normal, normalized
ImplicitTorus_u(m_normal) ==
    normalize(cross(IF Gt(Abs(m_normal[1]), Rat(9, 10)) THEN << Zero, One, Zero >>
                    ELSE << One, Zero, Zero >>,
                    m_normal))

ImplicitTorus_with(R, r, center, m_normal, m_u) ==
    [type |-> "ImplicitTorus", m_R |-> R, m_r |-> r, m_center |-> center,
     m_normal |-> m_normal, m_u |-> m_u, m_v |-> cross(m_normal, m_u)]

ImplicitTorus(R, r, center, normal) ==
    ImplicitTorus_with(R, r, center, ImplicitTorus_normal(normal),
                       ImplicitTorus_u(ImplicitTorus_normal(normal)))

\* the constructor of Duchon throws: the counts differ, there is no control point,
\* or the radius is within 1e-6 of zero
Duchon_ctor_throws(points, rbf_coeffs, radius) ==
    \/ Len(points) # Len(rbf_coeffs)
    \/ Len(points) = 0
    \/ Lt(Abs(radius), Rat(1, 1000000))

RECURSIVE Duchon_bbox_min(_, _)
\* bbox_min over the first n points
Duchon_bbox_min(points, n) ==
    IF n = 1 THEN points[1]
    ELSE Array([i \in 1..3 |-> Min(Duchon_bbox_min(points, n - 1)[i], points[n][i])])

RECURSIVE Duchon_bbox_max(_, _)
\* bbox_max over the first n points
Duchon_bbox_max(points, n) ==
    IF n = 1 THEN points[1]
    ELSE Array([i \in 1..3 |-> Max(Duchon_bbox_max(points, n - 1)[i], points[n][i])])

Duchon_bbox_center(bbox_min, bbox_max) ==
    Array([i \in 1..3 |-> Div(Add(bbox_min[i], bbox_max[i]), Two)])

\* initialize_normalization: m_scale and m_translation
Duchon_normalization(center, radius, bbox_center, diag_length) ==
    [m_scale |-> Div(diag_length, radius),
     m_translation |->
         Array([i \in 1..3 |->
             Add(Mul(Neg(center[i]), Div(diag_length, radius)), bbox_center[i])])]

Duchon_initialize_normalization(center, radius, bbox_max, bbox_center) ==
    Duchon_normalization(center, radius, bbox_center, norm(subtract(bbox_max, bbox_center)))

Duchon_with(points, rbf_coeffs, affine_coeffs, positive_inside, normalization) ==
    [type |-> "Duchon", m_points |-> points, m_rbf_coeffs |-> rbf_coeffs,
     m_affine_coeffs |-> affine_coeffs, m_positive_inside |-> positive_inside,
     m_scale |-> normalization.m_scale, m_translation |-> normalization.m_translation]

Duchon(points, rbf_coeffs, affine_coeffs, center, radius, positive_inside) ==
    Duchon_with(points, rbf_coeffs, affine_coeffs, positive_inside,
        Duchon_initialize_normalization(center, radius,
            Duchon_bbox_max(points, Len(points)),
            Duchon_bbox_center(Duchon_bbox_min(points, Len(points)),
                               Duchon_bbox_max(points, Len(points)))))

-----------------------------------------------------------------------------
(* Finite differences: transforms/transform.h, primitives/implicit_function.h, *)
(* space_time_function.h                                                       *)

\* the default step, 1e-6
delta == Rat(1, 1000000)

\* pos with delta added to (sign = 1) or subtracted from (sign = -1) component i
Perturbed(pos, i, sign) ==
    [j \in 1..Len(pos) |-> IF j = i THEN Add(pos[j], Mul(Num(sign), delta)) ELSE pos[j]]

Transform_finite_difference_velocity(T, pos, t) ==
    LET value_prev == Transform_transform(T, pos, Sub(t, delta))
        value_next == Transform_transform(T, pos, Add(t, delta))
    IN  [i \in 1..Len(pos) |->
            Div(Sub(value_next[i], value_prev[i]), Mul(Two, delta))]

Transform_finite_difference_Jacobian(T, pos, t) ==
    [j \in 1..Len(pos) |-> [i \in 1..Len(pos) |->
        LET val_plus == Transform_transform(T, Perturbed(pos, i, 1), t)
            val_minus == Transform_transform(T, Perturbed(pos, i, -1), t)
        IN  Div(Sub(val_plus[j], val_minus[j]), Mul(Two, delta))]]

ImplicitFunction_finite_difference_gradient(f, pos) ==
    [i \in 1..Len(pos) |->
        Div(Sub(ImplicitFunction_value(f, Perturbed(pos, i, 1)),
                ImplicitFunction_value(f, Perturbed(pos, i, -1))),
            Mul(Two, delta))]

SpaceTimeFunction_finite_difference_gradient(F, pos, t) ==
    [i \in 1..(Len(pos) + 1) |->
        IF i <= Len(pos)
        THEN Div(Sub(SpaceTimeFunction_value(F, Perturbed(pos, i, 1), t),
                     SpaceTimeFunction_value(F, Perturbed(pos, i, -1), t)),
                 Mul(Two, delta))
        ELSE Div(Sub(SpaceTimeFunction_value(F, pos, Add(t, delta)),
                     SpaceTimeFunction_value(F, pos, Sub(t, delta))),
                 Mul(Two, delta))]

-----------------------------------------------------------------------------
(* The virtual calls *)

\* the member function a call on object o resolves to: the finite differences
\* are members of the three base classes, the rest are overrides
Dispatch(o, method, pos, t) ==
    CASE method = "finite_difference_velocity" ->
           Transform_finite_difference_velocity(o, pos, t)
      [] method = "finite_difference_Jacobian" ->
           Transform_finite_difference_Jacobian(o, pos, t)
      [] method = "finite_difference_gradient" ->
           IF o.type \in {"GenericFunction", "ImplicitUnion"}
           THEN ImplicitFunction_finite_difference_gradient(o, pos)
           ELSE SpaceTimeFunction_finite_difference_gradient(o, pos, t)
      [] o.type = "GenericFunction" ->
           IF method = "value" THEN GenericFunction_value(o, pos)
           ELSE GenericFunction_gradient(o, pos)
      [] o.type = "ImplicitUnion" ->
           IF method = "value" THEN ImplicitUnion_value(o, pos)
           ELSE ImplicitUnion_gradient(o, pos)
      [] o.type = "Translation" ->
           (CASE method = "transform" -> Translation_transform(o, pos, t)
              [] method = "velocity" -> Translation_velocity(o, pos, t)
              [] method = "position_Jacobian" -> Translation_position_Jacobian(o, pos, t))
      [] o.type = "Scale" ->
           (CASE method = "transform" -> Scale_transform(o, pos, t)
              [] method = "velocity" -> Scale_velocity(o, pos, t)
              [] method = "position_Jacobian" -> Scale_position_Jacobian(o, pos, t))
      [] o.type = "Polyline" ->
           (CASE method = "transform" -> Polyline_transform(o, pos, t)
              [] method = "velocity" -> Polyline_velocity(o, pos, t)
              [] method = "position_Jacobian" -> Polyline_position_Jacobian(o, pos, t))
      [] o.type = "Compose" ->
           (CASE method = "transform" -> Compose_transform(o, pos, t)
              [] method = "velocity" -> Compose_velocity(o, pos, t)
              [] method = "position_Jacobian" -> Compose_position_Jacobian(o, pos, t))
      [] o.type = "SweepFunction" ->
           (CASE method = "value" -> SweepFunction_value(o, pos, t)
              [] method = "time_derivative" -> SweepFunction_time_derivative(o, pos, t)
              [] method = "gradient" -> SweepFunction_gradient(o, pos, t))
      [] o.type = "UnionFunction" ->
           (CASE method = "value" -> UnionFunction_value(o, pos, t)
              [] method = "time_derivative" -> UnionFunction_time_derivative(o, pos, t)
              [] method = "gradient" -> UnionFunction_gradient(o, pos, t))
      [] o.type = "BlendFunction" ->
           (CASE method = "value" -> BlendFunction_value(o, pos, t)
              [] method = "time_derivative" -> BlendFunction_time_derivative(o, pos, t)
              [] method = "gradient" -> BlendFunction_gradient(o, pos, t))
      [] o.type = "InterpolateFunction" ->
           (CASE method = "value" -> InterpolateFunction_value(o, pos, t)
              [] method = "time_derivative" -> InterpolateFunction_time_derivative(o, pos, t)
              [] method = "gradient" -> InterpolateFunction_gradient(o, pos, t))
      [] o.type = "OffsetFunction" ->
           (CASE method = "value" -> OffsetFunction_value(o, pos, t)
              [] method = "time_derivative" -> OffsetFunction_time_derivative(o, pos, t)
              [] method = "gradient" -> OffsetFunction_gradient(o, pos, t))

-----------------------------------------------------------------------------
(* Cubic Bezier evaluation (maths_2d.h / maths_3d.h); control_points is the  *)
(* span of four consecutive points.                                          *)

bezier(control_points, t) ==
    LET u == Sub(One, t)
        uu == Mul(u, u)
        tt == Mul(t, t)
        uuu == Mul(uu, u)
        uut == Mul(uu, t)
        utt == Mul(u, tt)
        ttt == Mul(tt, t)
    IN  Array([i \in 1..Len(control_points[1]) |->
            Add(Add(Add(Mul(uuu, control_points[1][i]),
                        Mul(Mul(Num(3), uut), control_points[2][i])),
                    Mul(Mul(Num(3), utt), control_points[3][i])),
                Mul(ttt, control_points[4][i]))])

bezier_derivative(control_points, t) ==
    LET u == Sub(One, t)
        uu == Mul(u, u)
        tt == Mul(t, t)
    IN  Array([i \in 1..Len(control_points[1]) |->
            Add(Add(Mul(Mul(Num(3), uu), Sub(control_points[2][i], control_points[1][i])),
                    Mul(Mul(Mul(Num(6), u), t),
                        Sub(control_points[3][i], control_points[2][i]))),
                Mul(Mul(Num(3), tt), Sub(control_points[4][i], control_points[3][i])))])

bezier_second_derivative(control_points, t) ==
    LET u == Sub(One, t)
    IN  Array([i \in 1..Len(control_points[1]) |->
            Add(Mul(Mul(Num(6), u),
                    Add(Sub(control_points[3][i], Mul(Two, control_points[2][i])),
                        control_points[1][i])),
                Mul(Mul(Num(6), t),
                    Add(Sub(control_points[4][i], Mul(Two, control_points[3][i])),
                        control_points[2][i])))])

\* rotation_matrix(from, to) throws when normalize() of either argument does
rotation_matrix_throws(from, to) == NormalizeThrows(from) \/ NormalizeThrows(to)

-----------------------------------------------------------------------------
(* transforms/polybezier.h *)

m_frames_per_bezier == 4

\* the span m_points.data() + segment * 3 of extent 4 (segment is 0-based)
PolyBezier_control_points(points, segment) == [k \in 1..4 |-> points[segment * 3 + k]]

\* the tangent at the n-th frame sample (0-based), in the order the loops visit them
PolyBezier_sample_tangent(points, n) ==
    LET i == n \div m_frames_per_bezier
        j == n % m_frames_per_bezier
    IN  bezier_derivative(PolyBezier_control_points(points, i),
                          Rat(j, m_frames_per_bezier - 1))

\* the frame pushed after `frames`: the rotation from the previous tangent (the
\* reference axis for the first sample) to this one, times m_frames.back()
PolyBezier_next_frame(points, frames, R) ==
    IF Len(frames) = 0 THEN R ELSE multiply(R, frames[Len(frames)])

RECURSIVE PolyBezier_frames_upto(_, _, _)
\* m_frames, grown from `frames` one push at a time until it holds n samples
PolyBezier_frames_upto(points, frames, n) ==
    IF Len(frames) >= n THEN frames
    ELSE PolyBezier_frames_upto(points,
             Append(frames, PolyBezier_next_frame(points, frames,
                 rotation_matrix(IF Len(frames) = 0 THEN ReferenceAxis(Len(points[1]))
                                 ELSE PolyBezier_sample_tangent(points, Len(frames) - 1),
                                 PolyBezier_sample_tangent(points, Len(frames))))),
             n)

PolyBezier_initialize_bishop_frames(points) ==
    PolyBezier_frames_upto(points, << >>,
                           ((Len(points) - 1) \div 3) * m_frames_per_bezier)

\* a constructor without the check of line 90
PolyBezier_ctor_throws_any_count(points, follow_tangent) ==
    \/ Len(points) < 4
    \/ \E n \in 0..(((Len(points) - 1) \div 3) * m_frames_per_bezier - 1) :
           NormalizeThrows(PolyBezier_sample_tangent(points, n))

\* the constructor throws: wrong number of points, or a zero tangent at a sample
\* (the frames are computed whatever follow_tangent says)
PolyBezier_ctor_throws(points, follow_tangent) ==
    \/ Len(points) < 4
    \/ (Len(points) - 1) % 3 # 0
    \/ \E n \in 0..(((Len(points) - 1) \div 3) * m_frames_per_bezier - 1) :
           NormalizeThrows(PolyBezier_sample_tangent(points, n))

\* what() of the exception the constructor throws: both size checks come before
\* initialize_bishop_frames()
PolyBezier_ctor_what(points, follow_tangent) ==
    IF Len(points) < 4 THEN "PolyBezier must consist of at least 4 points."
    ELSE IF (Len(points) - 1) % 3 # 0
         THEN "PolyBezier must consist of a (n * 3) + 1 points."
         ELSE "Zero-length vector"

PolyBezier(points, follow_tangent) ==
    [type |-> "PolyBezier",
     m_points |-> points,
     m_frames |-> PolyBezier_initialize_bishop_frames(points),
     m_follow_tangent |-> follow_tangent]


\* tangents[i] of from_samples (i is 0-based): one-sided at both ends, half the
\* chord between the neighbours elsewhere
PolyBezier_from_samples_tangent(samples, i) ==
    CASE i = 0 -> subtract(samples[2], samples[1])
      [] i = Len(samples) - 1 -> subtract(samples[Len(samples)], samples[Len(samples) - 1])
      [] OTHER -> scaleVec(subtract(samples[i + 2], samples[i]), Half)

\* the control points with the incoming handle of every sample taken from the
\* tangent of the sample before it
PolyBezier_from_samples_points_lagging(samples) ==
    Array([k \in 1..((Len(samples) - 1) * 3 + 1) |->
        CASE (k - 1) % 3 = 0 -> samples[(k - 1) \div 3 + 1]
          [] (k - 1) % 3 = 1 ->
               addVec(samples[(k - 1) \div 3 + 1],
                      scaleVec(PolyBezier_from_samples_tangent(samples, (k - 1) \div 3),
                               Rat(1, 3)))
          [] (k - 1) % 3 = 2 ->
               addVec(samples[(k - 1) \div 3 + 2],
                      scaleVec(PolyBezier_from_samples_tangent(samples, (k - 1) \div 3),
                               Rat(-1, 3)))])

\* the vector points of from_samples: for every i the three pushes of the loop,
\* then the last sample
PolyBezier_from_samples_points(samples) ==
    Array([k \in 1..((Len(samples) - 1) * 3 + 1) |->
        CASE (k - 1) % 3 = 0 -> samples[(k - 1) \div 3 + 1]
          [] (k - 1) % 3 = 1 ->
               addVec(samples[(k - 1) \div 3 + 1],
                      scaleVec(PolyBezier_from_samples_tangent(samples, (k - 1) \div 3),
                               Rat(1, 3)))
          [] (k - 1) % 3 = 2 ->
               addVec(samples[(k - 1) \div 3 + 2],
                      scaleVec(PolyBezier_from_samples_tangent(samples, (k - 1) \div 3 + 1),
                               Rat(-1, 3)))])

\* from_samples throws: fewer than 3 samples, or the constructor it calls throws
PolyBezier_from_samples_throws(samples, follow_tangent) ==
    \/ Len(samples) < 3
    \/ PolyBezier_ctor_throws(PolyBezier_from_samples_points(samples), follow_tangent)

\* what() of the exception from_samples throws: its own check comes before the
\* tangents, the points and the constructor
PolyBezier_from_samples_what(samples, follow_tangent) ==
    IF Len(samples) < 3
    THEN "A minimum of 3 samples is required for PolyBezier construction."
    ELSE PolyBezier_ctor_what(PolyBezier_from_samples_points(samples), follow_tangent)

PolyBezier_from_samples(samples, follow_tangent) ==
    PolyBezier(PolyBezier_from_samples_points(samples), follow_tangent)

\* find_bezier with t clamped to [0, 1] before alpha is computed
PolyBezier_find_bezier_clamped(T, t) ==
    LET num_beziers == (Len(T.m_points) - 1) \div 3
        raw == TruncFrom(Mul(Max(Zero, t), Num(num_beziers)), 0)
        segment == IF raw < num_beziers - 1 THEN raw ELSE num_beziers - 1
        alpha == Sub(Mul(Min(One, Max(Zero, t)), Num(num_beziers)), Num(segment))
    IN  [segment |-> segment, alpha |-> alpha]

\* std::tuple<size_t, Scalar> find_bezier(t); the segment index is 0-based
PolyBezier_find_bezier(T, t) ==
    LET num_beziers == (Len(T.m_points) - 1) \div 3
        raw == TruncFrom(Mul(Max(Zero, t), Num(num_beziers)), 0)
        segment == IF raw < num_beziers - 1 THEN raw ELSE num_beziers - 1
        alpha == Sub(Mul(t, Num(num_beziers)), Num(segment))
    IN  [segment |-> segment, alpha |-> alpha]

\* What undefined behaviour does in a build: a negative value converted to size_t
\* wraps around or saturates; an out-of-range element access traps or reads
\* memory that holds zeros or the units of an identity matrix.
UBOutcomes == [cast : {"wrap", "saturate"}, oob : {"fault", "read"},
               garbage : {"zero", "identity"}]

GarbageFrame(dim, ub) ==
    IF ub.garbage = "zero" THEN zeroMatrix(dim) ELSE identityMatrix(dim)

GarbageScalar(ub) == IF ub.garbage = "zero" THEN Zero ELSE One

\* static_cast<size_t>(x).  For x <= -1 the conversion is undefined: ub.cast says
\* whether the build wraps the truncated value around (x86-64) or saturates to 0.
\* A wrapped value is kept as the negative number it is congruent to.
CastToSize(x, ub) ==
    IF Gt(x, Num(-1)) THEN (IF Sign(x) < 0 THEN 0 ELSE TruncFrom(x, 0))
    ELSE IF ub.cast = "wrap" THEN -TruncFrom(Neg(x), 0)
    ELSE 0

PolyBezier_frame_index(segment, alpha, ub) ==
    segment * m_frames_per_bezier + CastToSize(Mul(alpha, Num(m_frames_per_bezier - 1)), ub)

\* ref_frame[i][2] for i < dim.  In 3D this is the frame's third column.  In 2D the
\* index is past the row: a build that does not trap reads the scalar that follows
\* the row in memory (the next row, then the next frame, then whatever lies behind
\* the vector).
PolyBezier_from_vec(T, frame_index, ref_frame, ub) ==
    IF Len(ref_frame) = 3
    THEN [i \in 1..3 |-> ref_frame[i][3]]
    ELSE << ref_frame[2][1],
            IF frame_index + 1 >= 0 /\ frame_index + 1 < Len(T.m_frames)
            THEN T.m_frames[frame_index + 2][1][1] ELSE GarbageScalar(ub) >>

PolyBezier_get_frame_rotated(frame_index, ref_frame, from_vec, to_vec) ==
    IF rotation_matrix_throws(from_vec, to_vec)
    THEN [status |-> "runtime_error", value |-> << >>, frame_index |-> frame_index]
    ELSE [status |-> "ok", frame_index |-> frame_index,
          value |-> multiply(rotation_matrix(from_vec, to_vec), ref_frame)]

PolyBezier_get_frame_read(T, segment, alpha, ub, frame_index, ref_frame) ==
    PolyBezier_get_frame_rotated(frame_index, ref_frame,
        PolyBezier_from_vec(T, frame_index, ref_frame, ub),
        bezier_derivative(PolyBezier_control_points(T.m_points, segment), alpha))

\* m_frames[frame_index], or what an out-of-range read finds
PolyBezier_ref_frame(T, frame_index, ub) ==
    IF frame_index >= 0 /\ frame_index < Len(T.m_frames)
    THEN T.m_frames[frame_index + 1]
    ELSE GarbageFrame(Len(T.m_points[1]), ub)

PolyBezier_get_frame_at(T, segment, alpha, ub, frame_index) ==
    IF /\ ub.oob = "fault"
       /\ \/ frame_index < 0
          \/ frame_index >= Len(T.m_frames)
          \/ Len(T.m_points[1]) = 2
    THEN [status |-> "fault", value |-> << >>, frame_index |-> frame_index]
    ELSE PolyBezier_get_frame_read(T, segment, alpha, ub, frame_index,
                                   PolyBezier_ref_frame(T, frame_index, ub))

\* get_frame(segment, alpha): [status, value, frame_index]
PolyBezier_get_frame(T, segment, alpha, ub) ==
    PolyBezier_get_frame_at(T, segment, alpha, ub,
                            PolyBezier_frame_index(segment, alpha, ub))

\* bezier_speed < 1e-10, compared in two steps of 1e-5 to stay in the integer width
SpeedIsZero(bezier_speed) ==
    /\ Lt(bezier_speed, Rat(1, 100000))
    /\ Lt(Mul(bezier_speed, Num(100000)), Rat(1, 100000))

PolyBezier_dT(T, bezier_acceleration, bezier_speed) ==
    Array([i \in 1..Len(T) |->
        Div(Sub(bezier_acceleration[i], Mul(dot(bezier_acceleration, T), T[i])),
            bezier_speed)])

PolyBezier_frame_derivative3(N1, N2, T, dT) ==
    Array([i \in 1..3 |->
        << Mul(Neg(dot(dT, N1)), T[i]), Mul(Neg(dot(dT, N2)), T[i]), dT[i] >>])

PolyBezier_frame_derivative2(N1, T, dT, bezier_speed) ==
    Array([i \in 1..2 |-> << Mul(Neg(Mul(bezier_speed, dot(dT, N1))), T[i]), dT[i] >>])

PolyBezier_frame_derivative(cols, bezier_acceleration, bezier_speed) ==
    IF Len(cols) = 3
    THEN PolyBezier_frame_derivative3(cols[1], cols[2], cols[3],
             PolyBezier_dT(cols[3], bezier_acceleration, bezier_speed))
    ELSE PolyBezier_frame_derivative2(cols[1], cols[2],
             PolyBezier_dT(cols[2], bezier_acceleration, bezier_speed), bezier_speed)

\* get_frame_derivative(frame, bezier_velocity, bezier_acceleration)
PolyBezier_get_frame_derivative(frame, bezier_velocity, bezier_acceleration) ==
    IF SpeedIsZero(norm(bezier_velocity)) THEN zeroMatrix(Len(frame))
    ELSE PolyBezier_frame_derivative(transpose(frame), bezier_acceleration,
                                     norm(bezier_velocity))

\* What a call on a curve returns, with the indices of m_points and m_frames it
\* read (0-based): [status, value, points, frames].
CurveResult(status, value, points, frames) ==
    [status |-> status, value |-> value, points |-> points, frames |-> frames]

PolyBezier_span(segment) == (segment * 3)..(segment * 3 + 3)

PolyBezier_transform_with(pos, segment, bezier_point, bezier_frame) ==
    CurveResult(bezier_frame.status,
                IF bezier_frame.status = "ok"
                THEN apply_matrix(transpose(bezier_frame.value), subtract(pos, bezier_point))
                ELSE << >>,
                PolyBezier_span(segment), {bezier_frame.frame_index})

PolyBezier_transform_on(T, pos, segment, alpha, ub) ==
    IF T.m_follow_tangent
    THEN PolyBezier_transform_with(pos, segment,
             bezier(PolyBezier_control_points(T.m_points, segment), alpha),
             PolyBezier_get_frame(T, segment, alpha, ub))
    ELSE CurveResult("ok",
             subtract(pos, bezier(PolyBezier_control_points(T.m_points, segment), alpha)),
             PolyBezier_span(segment), {})

\* -p - v with p = frame^T frame_derivative frame^T (pos - bezier_point) and
\* v = frame^T bezier_velocity, times num_beziers
PolyBezier_velocity_of(p, v, num_beziers) ==
    Array([i \in 1..Len(p) |-> Mul(Sub(Neg(p[i]), v[i]), Num(num_beziers))])

PolyBezier_velocity_in(frame, frame_derivative, p, bezier_velocity, num_beziers) ==
    PolyBezier_velocity_of(
        apply_matrix(transpose(frame),
            apply_matrix(frame_derivative, apply_matrix(transpose(frame), p))),
        apply_matrix(transpose(frame), bezier_velocity), num_beziers)

PolyBezier_velocity_with(pos, segment, control_points, alpha, fr, num_beziers) ==
    CurveResult(fr.status,
                IF fr.status = "ok"
                THEN PolyBezier_velocity_in(fr.value,
                         PolyBezier_get_frame_derivative(fr.value,
                             bezier_derivative(control_points, alpha),
                             bezier_second_derivative(control_points, alpha)),
                         subtract(pos, bezier(control_points, alpha)),
                         bezier_derivative(control_points, alpha), num_beziers)
                ELSE << >>,
                PolyBezier_span(segment), {fr.frame_index})

PolyBezier_velocity_on(T, pos, segment, alpha, ub, num_beziers) ==
    IF T.m_follow_tangent
    THEN PolyBezier_velocity_with(pos, segment,
             PolyBezier_control_points(T.m_points, segment), alpha,
             PolyBezier_get_frame(T, segment, alpha, ub), num_beziers)
    ELSE CurveResult("ok",
             scaleVec(bezier_derivative(PolyBezier_control_points(T.m_points, segment),
                                        alpha),
                      Num(-num_beziers)),
             PolyBezier_span(segment), {})

PolyBezier_position_Jacobian_with(segment, bezier_frame) ==
    CurveResult(bezier_frame.status,
                IF bezier_frame.status = "ok" THEN transpose(bezier_frame.value)
                ELSE << >>,
                PolyBezier_span(segment), {bezier_frame.frame_index})

PolyBezier_position_Jacobian_on(T, pos, segment, alpha, ub) ==
    IF T.m_follow_tangent
    THEN PolyBezier_position_Jacobian_with(segment,
             PolyBezier_get_frame(T, segment, alpha, ub))
    ELSE CurveResult("ok", identityMatrix(Len(pos)), {}, {})

PolyBezier_at(T, method, pos, ub, num_beziers, fb) ==
    CASE method = "transform" ->
           PolyBezier_transform_on(T, pos, fb.segment, fb.alpha, ub)
      [] method = "velocity" ->
           PolyBezier_velocity_on(T, pos, fb.segment, fb.alpha, ub, num_beziers)
      [] method = "position_Jacobian" ->
           PolyBezier_position_Jacobian_on(T, pos, fb.segment, fb.alpha, ub)

PolyBezier_transform(T, pos, t, ub) ==
    PolyBezier_at(T, "transform", pos, ub, (Len(T.m_points) - 1) \div 3,
                  PolyBezier_find_bezier(T, t))

PolyBezier_velocity(T, pos, t, ub) ==
    PolyBezier_at(T, "velocity", pos, ub, (Len(T.m_points) - 1) \div 3,
                  PolyBezier_find_bezier(T, t))

PolyBezier_position_Jacobian(T, pos, t, ub) ==
    PolyBezier_at(T, "position_Jacobian", pos, ub, (Len(T.m_points) - 1) \div 3,
                  PolyBezier_find_bezier(T, t))

\* the same record for the three calls on a Polyline
Polyline_call(T, method, pos, t) ==
    LET segment == Polyline_find_segment(T, t).segment
    IN  CASE method = "transform" ->
               CurveResult("ok", Polyline_transform(T, pos, t),
                           {segment, segment + 1}, {segment})
          [] method = "velocity" ->
               CurveResult("ok", Polyline_velocity(T, pos, t),
                           {segment, segment + 1}, {segment})
          [] method = "position_Jacobian" ->
               CurveResult("ok", Polyline_position_Jacobian(T, pos, t), {}, {segment})

PolyBezier_call(T, method, pos, t, ub) ==
    PolyBezier_at(T, method, pos, ub, (Len(T.m_points) - 1) \div 3,
                  PolyBezier_find_bezier(T, t))

-----------------------------------------------------------------------------
(* The caller: it constructs an object, evaluates it, and destroys it.       *)

\* bounds of the inputs the caller draws
MaxCoord == 1
MaxTick == 3
MaxDepth == 2

NoObject == [type |-> "none"]
NoQuery == [method |-> "none"]
NoResult == [status |-> "none"]

\* the template parameter dim
Dims == {2, 3}

\* a 3-vector of integers cut to dim components
Vec(dim, v) == [i \in 1..dim |-> Num(v[i])]

\* grid positions; in 3D the third coordinate is the sum of the first two
Positions(dim) == {Vec(dim, <<x, y, x + y>>) : x \in 0..MaxCoord, y \in 0..MaxCoord}

\* times from -1/2 upwards in steps of 1/2: before, inside and after [0, 1]
Times == {Rat(k, 2) : k \in -1..MaxTick}

\* the two primitives the caller supplies callables for
Plane(n, c) ==
    GenericFunction([kind |-> "plane", n |-> n, c |-> c],
                    [kind |-> "plane", n |-> n, c |-> c])

Paraboloid(center, r) ==
    GenericFunction([kind |-> "paraboloid", center |-> center, r |-> r],
                    [kind |-> "paraboloid", center |-> center, r |-> r])

Axis(dim, k) == [i \in 1..dim |-> IF i = k THEN One ELSE Zero]

Primitives(dim) ==
    { Plane(Vec(dim, <<1, 2, -1>>), Rat(-1, 2)),
      Paraboloid(Vec(dim, <<0, 1, 0>>), One),
      ImplicitUnion("Quadratic", Plane(Axis(dim, 1), Zero),
                    Paraboloid(Vec(dim, <<0, 1, 0>>), One), Rat(1, 4)) }

\* a path with a right-angle turn
TurnPoints(dim) == << Vec(dim, <<0, 0, 0>>), Vec(dim, <<1, 0, 0>>), Vec(dim, <<1, 1, 0>>) >>

BaseTransforms(dim) ==
    { Translation(Vec(dim, <<1, -1, 2>>)),
      Scale([i \in 1..dim |-> <<Two, Half, Num(3)>>[i]], Vec(dim, <<1, 0, 0>>)),
      Polyline(TurnPoints(dim), TRUE) }

Transforms(dim) ==
    BaseTransforms(dim) \cup
    { Compose(Translation(Vec(dim, <<1, -1, 2>>)), Polyline(TurnPoints(dim), TRUE)) }

RECURSIVE DimOf(_)
\* the template parameter an object was instantiated with
DimOf(o) ==
    CASE o.type = "GenericFunction" ->
           IF o.m_value_func.kind = "plane" THEN Len(o.m_value_func.n)
           ELSE Len(o.m_value_func.center)
      [] o.type = "ImplicitUnion" -> DimOf(o.m_f1)
      [] o.type = "Translation" -> Len(o.m_translation)
      [] o.type = "Scale" -> Len(o.m_factors)
      [] o.type \in {"Polyline", "PolyBezier"} -> Len(o.m_points[1])
      [] o.type = "Compose" -> DimOf(o.m_transform1)
      [] o.type = "SweepFunction" -> DimOf(o.m_transform)
      [] o.type \in {"UnionFunction", "BlendFunction", "InterpolateFunction"} ->
           DimOf(o.m_f1)
      [] o.type = "OffsetFunction" -> DimOf(o.m_f)

FieldTypes ==
    {"SweepFunction", "UnionFunction", "BlendFunction", "InterpolateFunction",
     "OffsetFunction"}

Init ==
    /\ build \in [absInt : BOOLEAN]
    /\ pc = "idle"
    /\ obj = NoObject
    /\ query = NoQuery
    /\ result = NoResult

\* SweepFunction<dim> sweep(f, T)
NewSweepFunction ==
    /\ pc = "idle"
    /\ \E dim \in Dims : \E f \in Primitives(dim) : \E T \in Transforms(dim) :
           obj' = SweepFunction(f, T)
    /\ pc' = "built"
    /\ query' = NoQuery
    /\ result' = NoResult
    /\ UNCHANGED build

\* obj.value(pos, t)
FieldValue ==
    /\ pc = "built"
    /\ obj.type \in FieldTypes
    /\ \E pos \in Positions(DimOf(obj)) : \E t \in Times :
           /\ query' = [method |-> "value", pos |-> pos, t |-> t]
           /\ result' = [status |-> "ok", value |-> SpaceTimeFunction_value(obj, pos, t)]
    /\ pc' = "done"
    /\ UNCHANGED <<build, obj>>

\* obj.time_derivative(pos, t)
FieldTimeDerivative ==
    /\ pc = "built"
    /\ obj.type \in FieldTypes
    /\ \E pos \in Positions(DimOf(obj)) : \E t \in Times :
           /\ query' = [method |-> "time_derivative", pos |-> pos, t |-> t]
           /\ result' = [status |-> "ok",
                         value |-> SpaceTimeFunction_time_derivative(obj, pos, t)]
    /\ pc' = "done"
    /\ UNCHANGED <<build, obj>>

\* obj.gradient(pos, t)
FieldGradient ==
    /\ pc = "built"
    /\ obj.type \in FieldTypes
    /\ \E pos \in Positions(DimOf(obj)) : \E t \in Times :
           /\ query' = [method |-> "gradient", pos |-> pos, t |-> t]
           /\ result' = [status |-> "ok", value |-> SpaceTimeFunction_gradient(obj, pos, t)]
    /\ pc' = "done"
    /\ UNCHANGED <<build, obj>>

\* the caller takes the returned value (or catches the exception)
Return ==
    /\ pc = "done"
    /\ pc' = IF obj = NoObject THEN "idle" ELSE "built"
    /\ query' = NoQuery
    /\ result' = NoResult
    /\ UNCHANGED <<build, obj>>

\* the object goes out of scope
Destroy ==
    /\ pc = "built"
    /\ pc' = "idle"
    /\ obj' = NoObject
    /\ query' = NoQuery
    /\ result' = NoResult
    /\ UNCHANGED build

NextSweep ==
    \/ NewSweepFunction
    \/ FieldValue
    \/ FieldTimeDerivative
    \/ FieldGradient
    \/ Return
    \/ Destroy

SpecSweep == Init /\ [][NextSweep]_vars

\* C1: a SweepFunction's value is the primitive's value at the transformed
\* position, its time derivative is the dot product of the primitive's gradient
\* there with the transform's velocity, and spatial component i of its gradient
\* is the sum over k of J[k][i] times component k of the primitive's gradient.
C1_SweepFormulas ==
    (pc = "done" /\ obj.type = "SweepFunction") =>
        LET f == obj.m_implicit_function
            T == obj.m_transform
            q == Transform_transform(T, query.pos, query.t)
            g == ImplicitFunction_gradient(f, q)
            v == Transform_velocity(T, query.pos, query.t)
            J == Transform_position_Jacobian(T, query.pos, query.t)
            n == Len(query.pos)
        IN  /\ query.method = "value" => result.value = ImplicitFunction_value(f, q)
            /\ query.method = "time_derivative" => result.value = dot(g, v)
            /\ query.method = "gradient" =>
                  \A i \in 1..n :
                      result.value[i] = SumTo([k \in 1..n |-> Mul(J[k][i], g[k])], n)

\* a gradient call has returned for a sweep whose Jacobian is not symmetric and
\* whose primitive has a gradient that varies with position
C1_Witness ==
    /\ pc = "done"
    /\ obj.type = "SweepFunction"
    /\ query.method = "gradient"
    /\ obj.m_implicit_function.type = "ImplicitUnion"
    /\ LET J == Transform_position_Jacobian(obj.m_transform, query.pos, query.t)
       IN  J # transpose(J)
    /\ result.value[1] # result.value[2]

-----------------------------------------------------------------------------
(* Composed transforms *)

TransformTypes == {"Translation", "Scale", "Polyline", "Compose"}

\* Compose<dim> composed(T1, T2); T1 may itself be a composition
NewCompose ==
    /\ pc = "idle"
    /\ \E dim \in Dims : \E T1 \in Transforms(dim) : \E T2 \in BaseTransforms(dim) :
           obj' = Compose(T1, T2)
    /\ pc' = "built"
    /\ query' = NoQuery
    /\ result' = NoResult
    /\ UNCHANGED build

\* obj.transform(pos, t)
TransformTransform ==
    /\ pc = "built"
    /\ obj.type \in TransformTypes
    /\ \E pos \in Positions(DimOf(obj)) : \E t \in Times :
           /\ query' = [method |-> "transform", pos |-> pos, t |-> t]
           /\ result' = [status |-> "ok", value |-> Transform_transform(obj, pos, t)]
    /\ pc' = "done"
    /\ UNCHANGED <<build, obj>>

\* obj.velocity(pos, t)
TransformVelocity ==
    /\ pc = "built"
    /\ obj.type \in TransformTypes
    /\ \E pos \in Positions(DimOf(obj)) : \E t \in Times :
           /\ query' = [method |-> "velocity", pos |-> pos, t |-> t]
           /\ result' = [status |-> "ok", value |-> Transform_velocity(obj, pos, t)]
    /\ pc' = "done"
    /\ UNCHANGED <<build, obj>>

\* obj.position_Jacobian(pos, t)
TransformJacobian ==
    /\ pc = "built"
    /\ obj.type \in TransformTypes
    /\ \E pos \in Positions(DimOf(obj)) : \E t \in Times :
           /\ query' = [method |-> "position_Jacobian", pos |-> pos, t |-> t]
           /\ result' = [status |-> "ok",
                         value |-> Transform_position_Jacobian(obj, pos, t)]
    /\ pc' = "done"
    /\ UNCHANGED <<build, obj>>

NextCompose ==
    \/ NewCompose
    \/ TransformTransform
    \/ TransformVelocity
    \/ TransformJacobian
    \/ Return
    \/ Destroy

SpecCompose == Init /\ [][NextCompose]_vars

\* C2: Compose(T1, T2) applies T1 first and T2 second: with q = T1.transform(p, t),
\* transform is T2.transform(q, t), position_Jacobian is the matrix product of
\* T2's Jacobian at q with T1's Jacobian at p, and velocity is T2's velocity at q
\* plus T2's Jacobian at q applied to T1's velocity at p.
C2_ComposeChainRule ==
    (pc = "done" /\ obj.type = "Compose") =>
        LET T1 == obj.m_transform1
            T2 == obj.m_transform2
            p == query.pos
            t == query.t
            q == Transform_transform(T1, p, t)
        IN  /\ query.method = "transform" => result.value = Transform_transform(T2, q, t)
            /\ query.method = "position_Jacobian" =>
                  result.value = multiply(Transform_position_Jacobian(T2, q, t),
                                          Transform_position_Jacobian(T1, p, t))
            /\ query.method = "velocity" =>
                  result.value = addVec(Transform_velocity(T2, q, t),
                                        apply_matrix(Transform_position_Jacobian(T2, q, t),
                                                     Transform_velocity(T1, p, t)))

\* a Jacobian call has returned for a composition of a non-uniform scaling
\* followed by a polyline whose frame is a rotation
C2_Witness ==
    /\ pc = "done"
    /\ obj.type = "Compose"
    /\ obj.m_transform1.type = "Scale"
    /\ obj.m_transform2.type = "Polyline"
    /\ query.method = "position_Jacobian"
    /\ result.value # transpose(result.value)


-----------------------------------------------------------------------------
(* Combined fields: the caller builds a field from sweeps by union, blend,   *)
(* interpolation and offset, each taking the field built so far as operand.  *)

\* the sweep a combination starts from, and the sweep it takes as second operand
FirstSweep(dim) ==
    SweepFunction(Paraboloid(Vec(dim, <<0, 1, 0>>), One), Translation(Vec(dim, <<1, -1, 2>>)))

SecondSweep(dim) ==
    SweepFunction(Plane(Vec(dim, <<1, 2, -1>>), Rat(-1, 2)),
                  Scale([i \in 1..dim |-> <<Two, Half, Num(3)>>[i]], Vec(dim, <<1, 0, 0>>)))

SmoothDistances == {Rat(-1, 4), Zero, Rat(1, 4)}

InterpolationFuncs == {"default", "square"}

OffsetFuncs == {[kind |-> "default"], [kind |-> "affine", c |-> Two, c0 |-> Num(-1)]}

RECURSIVE Depth(_)
\* the number of combinations above the first sweep
Depth(F) ==
    CASE F.type = "SweepFunction" -> 0
      [] F.type \in {"UnionFunction", "BlendFunction", "InterpolateFunction"} ->
           1 + Depth(F.m_f1)
      [] F.type = "OffsetFunction" -> 1 + Depth(F.m_f)

\* SweepFunction<dim> first(f, T)
NewFirstSweep ==
    /\ pc = "idle"
    /\ \E dim \in Dims : obj' = FirstSweep(dim)
    /\ pc' = "built"
    /\ query' = NoQuery
    /\ result' = NoResult
    /\ UNCHANGED build

\* UnionFunction<dim> u(obj, second, smooth_distance); a negative distance throws
CombineUnion ==
    /\ pc = "built"
    /\ obj.type \in FieldTypes
    /\ Depth(obj) < MaxDepth
    /\ \E s \in SmoothDistances :
           /\ IF UnionFunction_ctor_throws(s)
              THEN /\ query' = [method |-> "UnionFunction", smooth_distance |-> s]
                   /\ result' = [status |-> "invalid_argument"]
                   /\ pc' = "done"
                   /\ obj' = obj
              ELSE /\ query' = NoQuery
                   /\ result' = NoResult
                   /\ pc' = "built"
                   /\ obj' = UnionFunction(obj, SecondSweep(DimOf(obj)), s)
    /\ UNCHANGED build

\* BlendFunction<dim> b(obj, second)
CombineBlend ==
    /\ pc = "built"
    /\ obj.type \in FieldTypes
    /\ Depth(obj) < MaxDepth
    /\ obj' = BlendFunction(obj, SecondSweep(DimOf(obj)))
    /\ UNCHANGED <<build, pc, query, result>>

\* InterpolateFunction<dim> i(obj, second, func, derivative)
CombineInterpolate ==
    /\ pc = "built"
    /\ obj.type \in FieldTypes
    /\ Depth(obj) < MaxDepth
    /\ \E fn \in InterpolationFuncs :
           obj' = InterpolateFunction(obj, SecondSweep(DimOf(obj)), fn, fn)
    /\ UNCHANGED <<build, pc, query, result>>

\* OffsetFunction<dim> o(obj, func, derivative)
CombineOffset ==
    /\ pc = "built"
    /\ obj.type \in FieldTypes
    /\ Depth(obj) < MaxDepth
    /\ \E fn \in OffsetFuncs : obj' = OffsetFunction(obj, fn, fn)
    /\ UNCHANGED <<build, pc, query, result>>

NextField ==
    \/ NewFirstSweep
    \/ CombineUnion
    \/ CombineBlend
    \/ CombineInterpolate
    \/ CombineOffset
    \/ FieldValue
    \/ FieldTimeDerivative
    \/ FieldGradient
    \/ Return
    \/ Destroy

SpecField == Init /\ [][NextField]_vars

\* C3: whatever finite sequence of sweep, union, blend, interpolation and offset
\* built the field, the last component of gradient(pos, t) equals
\* time_derivative(pos, t).
C3_GradientLastIsTimeDerivative ==
    (pc = "done" /\ query.method = "gradient") =>
        result.value[Len(query.pos) + 1] =
            SpaceTimeFunction_time_derivative(obj, query.pos, query.t)

\* a gradient call has returned for a union built over an offset field, with
\* a time derivative that is not zero
C3_Witness ==
    /\ pc = "done"
    /\ query.method = "gradient"
    /\ obj.type = "UnionFunction"
    /\ obj.m_f1.type = "OffsetFunction"
    /\ obj.m_f1.m_offset_func.kind = "affine"
    /\ Depth(obj) >= 2
    /\ ~IsZero(result.value[Len(query.pos) + 1])


-----------------------------------------------------------------------------
(* Unions: the caller builds a primitive-level or a field-level union of two *)
(* planes and evaluates it.                                                  *)

BlendingFunction == {"Quadratic", "Cubic", "Quartic", "Circular"}

PrimitiveTypes == {"GenericFunction", "ImplicitUnion"}

\* the two operands: a = x and b = 3y/2, so that on the grid a - b takes the
\* values 0, 1/2, 1 and 3/2 in absolute value
FirstOperand(dim) == Plane(Axis(dim, 1), Zero)

SecondOperand(dim) == Plane(scaleVec(Axis(dim, 2), Rat(3, 2)), Zero)

\* smoothing distances; for the Circular kernel the two positive ones give the
\* widths k = 1 and k = 5/2
KernelDistances(UnionType) ==
    IF UnionType = "Circular"
    THEN {Zero, Normal(2, -1, 2), Normal(10, -5, 4)}
    ELSE {Zero, Rat(1, 8), Rat(1, 4), Rat(3, 8)}

\* the operand sweeps of a field-level union: at rest, or moving apart
OperandSweeps(dim) ==
    { << SweepFunction(FirstOperand(dim), Translation(Vec(dim, <<0, 0, 0>>))),
         SweepFunction(SecondOperand(dim), Translation(Vec(dim, <<0, 0, 0>>))) >>,
      << SweepFunction(FirstOperand(dim), Translation(Vec(dim, <<1, 0, 0>>))),
         SweepFunction(SecondOperand(dim), Translation(Vec(dim, <<0, 2, 0>>))) >> }

\* the argument of the square root in the Circular kernel
CircularRadicand(h) == Sub(One, Mul(h, Sub(h, Two)))


\* the two operand values of a union at the evaluation point
OperandValues(o, pos, t) ==
    [i \in 1..2 |-> Dispatch(IF i = 1 THEN o.m_f1 ELSE o.m_f2, "value", pos, t)]

\* the transition width of a union
Width(o) ==
    IF o.type = "ImplicitUnion" THEN ImplicitUnion_k(o.UnionType, o.m_smooth_distance)
    ELSE Mul(o.m_smooth_distance, Num(4))

\* whether the call's result stays in Q(sqrt 2); only then is it evaluated
InScalarModel(f, method, pos) ==
    (f.type = "ImplicitUnion" /\ f.UnionType = "Circular" /\ Gt(f.m_smooth_distance, Zero)) =>
        LET Of(ab, k) ==
                IF method = "value"
                THEN SqrtDefined(CircularRadicand(
                         ImplicitUnion_value_h("Circular", ab[1], ab[2], f.m_smooth_distance)))
                ELSE \/ Ge(Abs(Sub(ab[1], ab[2])), k)
                     \/ SqrtDefined(CircularRadicand(
                            Div(Sub(k, Abs(Sub(ab[1], ab[2]))), k)))
        IN  Of(OperandValues(f, pos, Zero), Width(f))

\* ImplicitUnion<dim, UnionType> u(f1, f2, smooth_distance)
NewImplicitUnion ==
    /\ pc = "idle"
    /\ \E dim \in Dims : \E UnionType \in BlendingFunction :
       \E s \in KernelDistances(UnionType) :
           obj' = ImplicitUnion(UnionType, FirstOperand(dim), SecondOperand(dim), s)
    /\ pc' = "built"
    /\ query' = NoQuery
    /\ result' = NoResult
    /\ UNCHANGED build

\* UnionFunction<dim> u(f1, f2, smooth_distance); a negative distance throws
NewUnionFunction ==
    /\ pc = "idle"
    /\ \E dim \in Dims : \E fs \in OperandSweeps(dim) :
       \E s \in SmoothDistances \cup KernelDistances("Quadratic") :
           /\ IF UnionFunction_ctor_throws(s)
              THEN /\ query' = [method |-> "UnionFunction", smooth_distance |-> s]
                   /\ result' = [status |-> "invalid_argument"]
                   /\ pc' = "done"
                   /\ obj' = NoObject
              ELSE /\ query' = NoQuery
                   /\ result' = NoResult
                   /\ pc' = "built"
                   /\ obj' = UnionFunction(fs[1], fs[2], s)
    /\ UNCHANGED build

\* obj.value(pos)
PrimitiveValue ==
    /\ pc = "built"
    /\ obj.type \in PrimitiveTypes
    /\ \E pos \in Positions(DimOf(obj)) :
           /\ InScalarModel(obj, "value", pos)
           /\ query' = [method |-> "value", pos |-> pos]
           /\ result' = [status |-> "ok", value |-> ImplicitFunction_value(obj, pos)]
    /\ pc' = "done"
    /\ UNCHANGED <<build, obj>>

\* obj.gradient(pos)
PrimitiveGradient ==
    /\ pc = "built"
    /\ obj.type \in PrimitiveTypes
    /\ \E pos \in Positions(DimOf(obj)) :
           /\ InScalarModel(obj, "gradient", pos)
           /\ query' = [method |-> "gradient", pos |-> pos]
           /\ result' = [status |-> "ok", value |-> ImplicitFunction_gradient(obj, pos)]
    /\ pc' = "done"
    /\ UNCHANGED <<build, obj>>

NextKernel ==
    \/ NewImplicitUnion
    \/ NewUnionFunction
    \/ PrimitiveValue
    \/ PrimitiveGradient
    \/ FieldValue
    \/ FieldTimeDerivative
    \/ FieldGradient
    \/ Return
    \/ Destroy

SpecKernel == Init /\ [][NextKernel]_vars


\* C5: with smoothing distance 0 the union value is exactly min(a, b) of the two
\* operand values, for ImplicitUnion with each of the four kernels and for
\* UnionFunction, at every evaluation point.
C5_HardUnionIsMin ==
    (/\ pc = "done"
     /\ query.method = "value"
     /\ obj.type \in {"ImplicitUnion", "UnionFunction"}
     /\ IsZero(obj.m_smooth_distance)) =>
        IF obj.type = "ImplicitUnion"
        THEN result.value = Min(ImplicitFunction_value(obj.m_f1, query.pos),
                                ImplicitFunction_value(obj.m_f2, query.pos))
        ELSE result.value = Min(SpaceTimeFunction_value(obj.m_f1, query.pos, query.t),
                                SpaceTimeFunction_value(obj.m_f2, query.pos, query.t))

\* a value call has returned for a Circular union without smoothing whose
\* second operand is the smaller one
C5_Witness ==
    /\ pc = "done"
    /\ query.method = "value"
    /\ obj.type = "ImplicitUnion"
    /\ obj.UnionType = "Circular"
    /\ IsZero(obj.m_smooth_distance)
    /\ Lt(ImplicitFunction_value(obj.m_f2, query.pos),
          ImplicitFunction_value(obj.m_f1, query.pos))
    /\ result.value = ImplicitFunction_value(obj.m_f2, query.pos)

\* C6: for every kernel with transition width k(s) and every a, b, s > 0, the
\* blended value is <= min(a, b); it is strictly < min(a, b) when |a - b| < k(s);
\* and when |a - b| >= k(s) the value is exactly min(a, b) and the gradient is
\* the smaller operand's gradient unchanged.
C6_BlendBelowMin ==
    (/\ pc = "done"
     /\ obj.type = "ImplicitUnion"
     /\ Gt(obj.m_smooth_distance, Zero)) =>
        LET a == ImplicitFunction_value(obj.m_f1, query.pos)
            b == ImplicitFunction_value(obj.m_f2, query.pos)
            k == ImplicitUnion_k(obj.UnionType, obj.m_smooth_distance)
            inside == Lt(Abs(Sub(a, b)), k)
        IN  /\ query.method = "value" =>
                  /\ Le(result.value, Min(a, b))
                  /\ inside => Lt(result.value, Min(a, b))
                  /\ ~inside => result.value = Min(a, b)
            /\ (query.method = "gradient" /\ ~inside) =>
                  result.value = IF Lt(a, b)
                                 THEN ImplicitFunction_gradient(obj.m_f1, query.pos)
                                 ELSE ImplicitFunction_gradient(obj.m_f2, query.pos)

\* C7: where the two operands of a UnionFunction have equal values,
\* time_derivative and every component of gradient equal the arithmetic mean of
\* the operands' corresponding derivatives, for smooth_distance = 0 and > 0.
C7_TieIsMean ==
    (/\ pc = "done"
     /\ obj.type = "UnionFunction"
     /\ query.method \in {"time_derivative", "gradient"}
     /\ SpaceTimeFunction_value(obj.m_f1, query.pos, query.t) =
        SpaceTimeFunction_value(obj.m_f2, query.pos, query.t)) =>
        IF query.method = "time_derivative"
        THEN result.value =
                 Div(Add(SpaceTimeFunction_time_derivative(obj.m_f1, query.pos, query.t),
                         SpaceTimeFunction_time_derivative(obj.m_f2, query.pos, query.t)),
                     Two)
        ELSE LET g1 == SpaceTimeFunction_gradient(obj.m_f1, query.pos, query.t)
                 g2 == SpaceTimeFunction_gradient(obj.m_f2, query.pos, query.t)
             IN  result.value = [i \in 1..(Len(query.pos) + 1) |->
                                     Div(Add(g1[i], g2[i]), Two)]

\* a gradient call has returned at a tie of two moving operands whose time
\* derivatives differ, with a positive smoothing distance
C7_Witness ==
    /\ pc = "done"
    /\ obj.type = "UnionFunction"
    /\ query.method = "gradient"
    /\ Gt(obj.m_smooth_distance, Zero)
    /\ SpaceTimeFunction_value(obj.m_f1, query.pos, query.t) =
       SpaceTimeFunction_value(obj.m_f2, query.pos, query.t)
    /\ SpaceTimeFunction_time_derivative(obj.m_f1, query.pos, query.t) #
       SpaceTimeFunction_time_derivative(obj.m_f2, query.pos, query.t)
    /\ result.value[Len(query.pos) + 1] = Two

\* C8: for any operand values (including a = b), operand derivatives and
\* smoothing distance s >= 0, UnionFunction's value and each derivative
\* component equal the value and the corresponding gradient component that
\* ImplicitUnion with the Quadratic kernel returns for the same inputs.  The
\* inputs are the same when the operand sweeps are at rest.
C8_SameKernelRules ==
    (/\ pc = "done"
     /\ obj.type = "UnionFunction"
     /\ query.method \in {"value", "gradient"}
     /\ obj.m_f1.m_transform = Translation(Vec(Len(query.pos), <<0, 0, 0>>))
     /\ obj.m_f2.m_transform = Translation(Vec(Len(query.pos), <<0, 0, 0>>))) =>
        LET u == ImplicitUnion("Quadratic", obj.m_f1.m_implicit_function,
                               obj.m_f2.m_implicit_function, obj.m_smooth_distance)
        IN  IF query.method = "value"
            THEN result.value = ImplicitUnion_value(u, query.pos)
            ELSE \A i \in 1..Len(query.pos) :
                     result.value[i] = ImplicitUnion_gradient(u, query.pos)[i]


-----------------------------------------------------------------------------
(* Finite-difference checks: the caller builds a primitive, a transform or a *)
(* field and asks for the finite-difference approximation of a derivative,   *)
(* with the default step.                                                    *)

\* the tolerance of check_gradient, check_velocity and check_jacobian, 1e-6
epsilon == Rat(1, 1000000)

Origin(dim) == Vec(dim, <<0, 0, 0>>)

\* paths: a right-angle turn; a segment against the reference axis; a diagonal
\* followed by an axis-parallel segment; a single point; a repeated point
PolylinePaths(dim) ==
    { TurnPoints(dim),
      << Origin(dim), [i \in 1..dim |-> Neg(ReferenceAxis(dim)[i])] >>,
      << Origin(dim), Vec(dim, <<1, 1, 0>>), Vec(dim, <<2, 1, 0>>) >>,
      << Origin(dim) >>,
      << Origin(dim), Origin(dim) >> }

\* Translation<dim> T(translation)
NewTranslation ==
    /\ pc = "idle"
    /\ \E dim \in Dims : obj' = Translation(Vec(dim, <<1, -1, 2>>))
    /\ pc' = "built"
    /\ query' = NoQuery
    /\ result' = NoResult
    /\ UNCHANGED build

\* Scale<dim> T(factors, center)
NewScale ==
    /\ pc = "idle"
    /\ \E dim \in Dims :
           obj' = Scale([i \in 1..dim |-> <<Two, Half, Num(3)>>[i]], Vec(dim, <<1, 0, 0>>))
    /\ pc' = "built"
    /\ query' = NoQuery
    /\ result' = NoResult
    /\ UNCHANGED build

\* Polyline<dim> T(points, follow_tangent); too few points or a zero-length
\* segment throws std::runtime_error
NewPolyline ==
    /\ pc = "idle"
    /\ \E dim \in Dims : \E points \in PolylinePaths(dim) : \E follow_tangent \in BOOLEAN :
           IF Polyline_ctor_throws(points, follow_tangent)
           THEN /\ query' = [method |-> "Polyline", points |-> points,
                             follow_tangent |-> follow_tangent]
                /\ result' = [status |-> "runtime_error",
                              what |-> Polyline_ctor_what(points, follow_tangent)]
                /\ pc' = "done"
                /\ obj' = NoObject
           ELSE /\ query' = NoQuery
                /\ result' = NoResult
                /\ pc' = "built"
                /\ obj' = Polyline(points, follow_tangent)
    /\ UNCHANGED build

\* Whether the finite difference stays within the model's integers: inside the
\* blending region the perturbed values carry delta^2, so a smoothed union is
\* evaluated only where |a - b| exceeds the transition width by 1/1000.
FiniteDifferenceInScalarModel(o, pos, t) ==
    (o.type \in {"ImplicitUnion", "UnionFunction"} /\ Gt(o.m_smooth_distance, Zero)) =>
        LET Clear(ab) == Ge(Abs(Sub(ab[1], ab[2])), Add(Width(o), Rat(1, 1000)))
        IN  /\ Clear(OperandValues(o, pos, t))
            /\ o.type = "ImplicitUnion" =>
                   \A i \in 1..Len(pos) : \A sign \in {-1, 1} :
                       InScalarModel(o, "value", Perturbed(pos, i, sign))

\* obj.finite_difference_gradient(pos)
PrimitiveFiniteDifferenceGradient ==
    /\ pc = "built"
    /\ obj.type \in PrimitiveTypes
    /\ \E pos \in Positions(DimOf(obj)) :
           /\ FiniteDifferenceInScalarModel(obj, pos, Zero)
           /\ query' = [method |-> "finite_difference_gradient", pos |-> pos]
           /\ result' = [status |-> "ok",
                         value |-> Dispatch(obj, "finite_difference_gradient", pos, Zero)]
    /\ pc' = "done"
    /\ UNCHANGED <<build, obj>>

\* obj.finite_difference_velocity(pos, t)
TransformFiniteDifferenceVelocity ==
    /\ pc = "built"
    /\ obj.type \in TransformTypes
    /\ \E pos \in Positions(DimOf(obj)) : \E t \in Times :
           /\ query' = [method |-> "finite_difference_velocity", pos |-> pos, t |-> t]
           /\ result' = [status |-> "ok",
                         value |-> Dispatch(obj, "finite_difference_velocity", pos, t)]
    /\ pc' = "done"
    /\ UNCHANGED <<build, obj>>

\* obj.finite_difference_Jacobian(pos, t)
TransformFiniteDifferenceJacobian ==
    /\ pc = "built"
    /\ obj.type \in TransformTypes
    /\ \E pos \in Positions(DimOf(obj)) : \E t \in Times :
           /\ query' = [method |-> "finite_difference_Jacobian", pos |-> pos, t |-> t]
           /\ result' = [status |-> "ok",
                         value |-> Dispatch(obj, "finite_difference_Jacobian", pos, t)]
    /\ pc' = "done"
    /\ UNCHANGED <<build, obj>>

\* obj.finite_difference_gradient(pos, t)
FieldFiniteDifferenceGradient ==
    /\ pc = "built"
    /\ obj.type \in FieldTypes
    /\ \E pos \in Positions(DimOf(obj)) : \E t \in Times :
           /\ FiniteDifferenceInScalarModel(obj, pos, t)
           /\ query' = [method |-> "finite_difference_gradient", pos |-> pos, t |-> t]
           /\ result' = [status |-> "ok",
                         value |-> Dispatch(obj, "finite_difference_gradient", pos, t)]
    /\ pc' = "done"
    /\ UNCHANGED <<build, obj>>

NextFD ==
    \/ NewImplicitUnion
    \/ NewTranslation
    \/ NewScale
    \/ NewPolyline
    \/ NewUnionFunction
    \/ PrimitiveFiniteDifferenceGradient
    \/ TransformFiniteDifferenceVelocity
    \/ TransformFiniteDifferenceJacobian
    \/ FieldFiniteDifferenceGradient
    \/ Return
    \/ Destroy

SpecFD == Init /\ [][NextFD]_vars

\* C4: for every primitive, transform and field the analytic derivative agrees
\* with the central finite difference of the value function with step 1e-6 to
\* within 1e-6 (velocity and position_Jacobian against transform, gradient
\* against value), at every evaluation point away from ties and segment joints.
C4_AnalyticMatchesFiniteDifference ==
    (/\ pc = "done"
     /\ query.method \in {"finite_difference_gradient", "finite_difference_velocity",
                          "finite_difference_Jacobian"}) =>
        LET pos == query.pos
            n == Len(query.pos)
            Close(x, y) == /\ Lt(Abs(Sub(x, y)), One)
                           /\ Le(Mul(Abs(Sub(x, y)), Num(epsilon[3])), Num(epsilon[1]))
            tie == LET ab == OperandValues(obj, pos, IF obj.type = "ImplicitUnion"
                                                     THEN Zero ELSE query.t)
                   IN  ab[1] = ab[2]
            joint == LET x == Mul(query.t, Num(Len(obj.m_points) - 1))
                     IN  /\ x[2] = 0 /\ x[3] = 1
                         /\ 0 < x[1] /\ x[1] < Len(obj.m_points) - 1
        IN  CASE obj.type = "ImplicitUnion" ->
                   ~tie => \A i \in 1..n :
                               Close(ImplicitFunction_gradient(obj, pos)[i], result.value[i])
              [] obj.type = "UnionFunction" ->
                   ~tie => \A i \in 1..(n + 1) :
                               Close(SpaceTimeFunction_gradient(obj, pos, query.t)[i],
                                     result.value[i])
              [] obj.type \in TransformTypes ->
                   (obj.type = "Polyline" => ~joint) =>
                       IF query.method = "finite_difference_velocity"
                       THEN \A i \in 1..n :
                                Close(Transform_velocity(obj, pos, query.t)[i],
                                      result.value[i])
                       ELSE \A i \in 1..n : \A j \in 1..n :
                                Close(Transform_position_Jacobian(obj, pos, query.t)[i][j],
                                      result.value[i][j])

-----------------------------------------------------------------------------
(* Curves: the caller builds a Polyline or a PolyBezier and evaluates it at  *)
(* parameters before, inside and after [0, 1].                               *)

CurveTypes == {"Polyline", "PolyBezier"}

\* n control points on the first axis, one unit apart
Line(dim, n) == [k \in 1..n |-> Vec(dim, <<k - 1, 0, 0>>)]

\* control points: one straight Bezier; two straight Beziers; one that goes out
\* and comes back; one that moves forwards all along but stands still at its
\* middle; point counts the constructor rejects; four equal points; five equal
\* points
BezierPaths(dim) ==
    { Line(dim, 4),
      Line(dim, 7),
      << Origin(dim), Axis(dim, 1), Axis(dim, 1), Origin(dim) >>,
      << Origin(dim), Axis(dim, 1), Origin(dim), Axis(dim, 1) >>,
      Line(dim, 3),
      Line(dim, 5),
      << Origin(dim), Origin(dim), Origin(dim), Origin(dim) >>,
      << Origin(dim), Origin(dim), Origin(dim), Origin(dim), Origin(dim) >> }

\* PolyBezier<dim> T(points, follow_tangent); a wrong number of control points
\* or a zero tangent at a frame sample throws std::runtime_error
NewPolyBezier ==
    /\ pc = "idle"
    /\ \E dim \in Dims : \E points \in BezierPaths(dim) : \E follow_tangent \in BOOLEAN :
           IF PolyBezier_ctor_throws(points, follow_tangent)
           THEN /\ query' = [method |-> "PolyBezier", points |-> points,
                             follow_tangent |-> follow_tangent]
                /\ result' = [status |-> "runtime_error",
                              what |-> PolyBezier_ctor_what(points, follow_tangent)]
                /\ pc' = "done"
                /\ obj' = NoObject
           ELSE /\ query' = NoQuery
                /\ result' = NoResult
                /\ pc' = "built"
                /\ obj' = PolyBezier(points, follow_tangent)
    /\ UNCHANGED build

\* Whether rotation_matrix(from, to) stays within the model's scalars: both norms
\* and the sine of the angle have their roots in Q(sqrt 2).
RotationInScalarModel(from, to) ==
    /\ SqrtDefined(dot(from, from))
    /\ SqrtDefined(dot(to, to))
    /\ ~rotation_matrix_throws(from, to) =>
           SqrtDefined(Sub(One, Mul(dot(normalize(from), normalize(to)),
                                    dot(normalize(from), normalize(to)))))

CurveInScalarModel_read(T, segment, alpha, ub, frame_index) ==
    RotationInScalarModel(
        PolyBezier_from_vec(T, frame_index, PolyBezier_ref_frame(T, frame_index, ub), ub),
        bezier_derivative(PolyBezier_control_points(T.m_points, segment), alpha))

CurveInScalarModel_at(T, ub, fb) ==
    CurveInScalarModel_read(T, fb.segment, fb.alpha, ub,
                            PolyBezier_frame_index(fb.segment, fb.alpha, ub))

\* Whether a call on the curve stays within the model's scalars: the frame that
\* get_frame reads has a third column with a norm in Q(sqrt 2).
CurveInScalarModel(T, t, ub) ==
    (T.type = "PolyBezier" /\ T.m_follow_tangent) =>
        CurveInScalarModel_at(T, ub, PolyBezier_find_bezier(T, t))

Curve_call(T, method, pos, t, ub) ==
    IF T.type = "Polyline" THEN Polyline_call(T, method, pos, t)
    ELSE PolyBezier_call(T, method, pos, t, ub)

\* obj.transform(pos, t) on a curve
CurveTransform ==
    /\ pc = "built"
    /\ obj.type \in CurveTypes
    /\ \E pos \in Positions(DimOf(obj)) : \E t \in Times : \E ub \in UBOutcomes :
           /\ CurveInScalarModel(obj, t, ub)
           /\ query' = [method |-> "transform", pos |-> pos, t |-> t]
           /\ result' = Curve_call(obj, "transform", pos, t, ub)
    /\ pc' = "done"
    /\ UNCHANGED <<build, obj>>

\* obj.velocity(pos, t) on a curve
CurveVelocity ==
    /\ pc = "built"
    /\ obj.type \in CurveTypes
    /\ \E pos \in Positions(DimOf(obj)) : \E t \in Times : \E ub \in UBOutcomes :
           /\ CurveInScalarModel(obj, t, ub)
           /\ query' = [method |-> "velocity", pos |-> pos, t |-> t]
           /\ result' = Curve_call(obj, "velocity", pos, t, ub)
    /\ pc' = "done"
    /\ UNCHANGED <<build, obj>>

\* obj.position_Jacobian(pos, t) on a curve
CurveJacobian ==
    /\ pc = "built"
    /\ obj.type \in CurveTypes
    /\ \E pos \in Positions(DimOf(obj)) : \E t \in Times : \E ub \in UBOutcomes :
           /\ CurveInScalarModel(obj, t, ub)
           /\ query' = [method |-> "position_Jacobian", pos |-> pos, t |-> t]
           /\ result' = Curve_call(obj, "position_Jacobian", pos, t, ub)
    /\ pc' = "done"
    /\ UNCHANGED <<build, obj>>

NextCurve ==
    \/ NewPolyline
    \/ NewPolyBezier
    \/ CurveTransform
    \/ CurveVelocity
    \/ CurveJacobian
    \/ Return
    \/ Destroy

SpecCurve == Init /\ [][NextCurve]_vars

\* the point indices (0-based) of the first and of the last segment of a curve
FirstSegmentPoints(T) == IF T.type = "Polyline" THEN {0, 1} ELSE PolyBezier_span(0)

LastSegmentPoints(T) ==
    IF T.type = "Polyline" THEN {Len(T.m_points) - 2, Len(T.m_points) - 1}
    ELSE PolyBezier_span((Len(T.m_points) - 1) \div 3 - 1)

\* C9: for every curve parameter t, below 0 and above 1 included, and for both
\* settings of follow_tangent, transform, velocity and position_Jacobian on a
\* Polyline or a PolyBezier read only point indices and frame indices that are
\* within bounds, from the first segment when t < 0 and from the last segment
\* when t > 1.
C9_CurveReadsInBounds ==
    (/\ pc = "done"
     /\ obj.type \in CurveTypes
     /\ query.method \in {"transform", "velocity", "position_Jacobian"}) =>
        /\ result.status # "fault"
        /\ result.points \subseteq 0..(Len(obj.m_points) - 1)
        /\ result.frames \subseteq 0..(Len(obj.m_frames) - 1)
        /\ Lt(query.t, Zero) => result.points \subseteq FirstSegmentPoints(obj)
        /\ Gt(query.t, One) => result.points \subseteq LastSegmentPoints(obj)

\* a frame is orthonormal when its transpose is its inverse
IsOrthonormal(frame) == multiply(transpose(frame), frame) = identityMatrix(Len(frame))

\* C10: after construction with follow_tangent enabled every frame stored by a
\* Polyline or a PolyBezier, in 2D and in 3D, is orthonormal, for every point
\* sequence the constructor accepts, whatever the angle between consecutive
\* tangents.
C10_FramesOrthonormal ==
    (obj.type \in CurveTypes /\ obj.m_follow_tangent) =>
        \A k \in 1..Len(obj.m_frames) : IsOrthonormal(obj.m_frames[k])


\* C11: for a Polyline built with follow_tangent enabled, frame 0 is the rotation
\* taking the reference axis (z in 3D, y in 2D) to the direction of segment 0,
\* frame i+1 = rotation(direction_i -> direction_i+1) * frame i, and for every
\* segment i the frame maps the reference axis exactly onto the unit direction
\* of segment i.
C11_FrameMapsAxisToDirection ==
    (obj.type = "Polyline" /\ obj.m_follow_tangent) =>
        /\ obj.m_frames[1] = rotation_matrix(ReferenceAxis(DimOf(obj)),
                                             Polyline_to_vector(obj.m_points, 0))
        /\ \A i \in 1..(Len(obj.m_frames) - 1) :
               obj.m_frames[i + 1] =
                   multiply(rotation_matrix(Polyline_to_vector(obj.m_points, i - 1),
                                            Polyline_to_vector(obj.m_points, i)),
                            obj.m_frames[i])
        /\ \A i \in 1..Len(obj.m_frames) :
               apply_matrix(obj.m_frames[i], ReferenceAxis(DimOf(obj))) =
                   normalize(Polyline_to_vector(obj.m_points, i - 1))


\* the segment (0-based) a parameter falls in: segment k covers
\* [k/(n-1), (k+1)/(n-1)), the first one extends below 0 and the last one above 1
SegmentOf(T, t) ==
    CHOOSE k \in 0..(Len(T.m_points) - 2) :
        /\ k > 0 => Le(Num(k), Mul(t, Num(Len(T.m_points) - 1)))
        /\ k < Len(T.m_points) - 2 => Lt(Mul(t, Num(Len(T.m_points) - 1)), Num(k + 1))

\* C12: for a Polyline with n points and t falling in segment i with local
\* fraction a = t*(n-1) - i, transform(pos,t) = transpose(F_i) * (pos - (p_i +
\* a*(p_i+1 - p_i))), velocity(pos,t) = transpose(F_i) * (p_i - p_i+1) * (n-1)
\* whatever pos is, and position_Jacobian(pos,t) = transpose(F_i); velocity and
\* Jacobian are constant within a segment and velocity is the exact t-derivative
\* of transform within the segment.
C12_PolylineFormulas ==
    (/\ pc = "done"
     /\ obj.type = "Polyline"
     /\ query.method \in {"transform", "velocity", "position_Jacobian"}) =>
        LET n == Len(obj.m_points)
            i == SegmentOf(obj, query.t)
            a == Sub(Mul(query.t, Num(n - 1)), Num(i))
            Ft == transpose(obj.m_frames[i + 1])
            p0 == obj.m_points[i + 1]
            p1 == obj.m_points[i + 2]
            vel == apply_matrix(Ft, scaleVec(subtract(p0, p1), Num(n - 1)))
            Same == {t2 \in Times : SegmentOf(obj, t2) = i}
        IN  CASE query.method = "transform" ->
                   /\ result.value =
                          apply_matrix(Ft, subtract(query.pos,
                                                    addVec(p0, scaleVec(subtract(p1, p0), a))))
                   /\ \A t2 \in Same :
                          subtract(Polyline_transform(obj, query.pos, t2), result.value) =
                              scaleVec(vel, Sub(t2, query.t))
              [] query.method = "velocity" ->
                   /\ result.value = vel
                   /\ \A t2 \in Same : \A pos2 \in Positions(DimOf(obj)) :
                          Polyline_velocity(obj, pos2, t2) = result.value
              [] query.method = "position_Jacobian" ->
                   /\ result.value = Ft
                   /\ \A t2 \in Same : \A pos2 \in Positions(DimOf(obj)) :
                          Polyline_position_Jacobian(obj, pos2, t2) = result.value

\* a velocity was asked beyond the end of a two-segment Polyline whose last frame
\* is a genuine rotation
C12_Witness ==
    /\ pc = "done"
    /\ obj.type = "Polyline"
    /\ obj.m_follow_tangent
    /\ Len(obj.m_points) = 3
    /\ query.method = "velocity"
    /\ Gt(query.t, One)
    /\ SegmentOf(obj, query.t) = 1
    /\ obj.m_frames[2] # identityMatrix(DimOf(obj))
    /\ result.value # Vec(DimOf(obj), <<0, 0, 0>>)


\* the point of the path at parameter t
PathPoint(T, t) ==
    IF T.type = "Polyline"
    THEN addVec(T.m_points[SegmentOf(T, t) + 1],
                scaleVec(subtract(T.m_points[SegmentOf(T, t) + 2],
                                  T.m_points[SegmentOf(T, t) + 1]),
                         Polyline_find_segment(T, t).alpha))
    ELSE bezier(PolyBezier_control_points(T.m_points, PolyBezier_find_bezier(T, t).segment),
                PolyBezier_find_bezier(T, t).alpha)

\* a point list of a size the constructor documents as valid
ValidSize(method, points) ==
    IF method = "Polyline" THEN Len(points) >= 2
    ELSE Len(points) >= 4 /\ (Len(points) - 1) % 3 = 0

\* C13: when follow_tangent is false a Polyline or PolyBezier is a pure
\* translation along its path: transform(pos,t) = pos - path(t), the
\* position_Jacobian is the identity for every t, no Bishop frame is computed or
\* consulted, and construction and evaluation succeed for any point list of valid
\* size regardless of its tangents.
C13_NoTangentIsTranslation ==
    /\ (/\ pc = "done"
        /\ query.method \in CurveTypes
        /\ ~query.follow_tangent) => ~ValidSize(query.method, query.points)
    /\ (/\ pc = "done"
        /\ obj.type \in CurveTypes
        /\ ~obj.m_follow_tangent
        /\ query.method \in {"transform", "position_Jacobian"}) =>
           /\ result.status = "ok"
           /\ query.method = "transform" =>
                  result.value = subtract(query.pos, PathPoint(obj, query.t))
           /\ query.method = "position_Jacobian" =>
                  result.value = identityMatrix(DimOf(obj))
           /\ obj.type = "PolyBezier" => result.frames = {}
           /\ obj.type = "Polyline" =>
                  \A k \in result.frames : obj.m_frames[k + 1] = identityMatrix(DimOf(obj))


-----------------------------------------------------------------------------
(* Cross-fades and offsets of fields                                          *)

C17_OffsetChangesValueAndTime ==
    (/\ pc = "done"
     /\ obj.type = "OffsetFunction"
     /\ query.method \in {"value", "time_derivative", "gradient"}) =>
        LET t == query.t
            dim == Len(query.pos)
            o == offset_func(obj.m_offset_func, t)
            do == offset_derivative(obj.m_offset_derivative, t)
            g == SpaceTimeFunction_gradient(obj.m_f, query.pos, t)
        IN  CASE query.method = "value" ->
                   result.value = Add(SpaceTimeFunction_value(obj.m_f, query.pos, t), o)
              [] query.method = "time_derivative" ->
                   result.value =
                       Add(SpaceTimeFunction_time_derivative(obj.m_f, query.pos, t), do)
              [] query.method = "gradient" ->
                   /\ result.value[dim + 1] = Add(g[dim + 1], do)
                   /\ \A i \in 1..dim : result.value[i] = g[i]

\* a value was asked of a field offset by a signal that is not zero at that time
C17_Witness ==
    /\ pc = "done"
    /\ obj.type = "OffsetFunction"
    /\ query.method = "value"
    /\ ~IsZero(offset_func(obj.m_offset_func, query.t))
    /\ ~IsZero(offset_derivative(obj.m_offset_derivative, query.t))

\* the calls that evaluate a constructed transform or field
EvaluationMethods ==
    {"transform", "velocity", "position_Jacobian", "value", "time_derivative", "gradient"}

\* C18: once a transform or field has been constructed, no evaluation call
\* (transform, velocity, position_Jacobian, value, time_derivative, gradient)
\* raises an exception for any finite pos and t: where a zero-length vector would
\* be normalized, a fallback result is returned instead of an error.
C18_EvaluationNeverThrows ==
    (/\ pc = "done"
     /\ obj # NoObject
     /\ query.method \in EvaluationMethods) =>
        result.status \notin {"runtime_error", "invalid_argument"}

-----------------------------------------------------------------------------
(* Curves through samples: the caller builds a PolyBezier with from_samples   *)
(* and evaluates it.                                                          *)

\* samples on a straight line in direction d, at the multiples ks of d
SamplesAlong(dim, d, ks) ==
    Array([n \in 1..Len(ks) |-> Vec(dim, <<ks[n] * d[1], ks[n] * d[2], 0>>)])



\* unevenly spaced samples along the first axis and along the diagonal; too few
\* samples; a repeated first sample; two equal samples
SampleLists(dim) ==
    { SamplesAlong(dim, <<1, 0>>, <<0, 1, 3>>),
      SamplesAlong(dim, <<1, 0>>, <<0, 1, 3, 4>>),
      SamplesAlong(dim, <<1, 1>>, <<0, 2, 3>>),
      SamplesAlong(dim, <<1, 0>>, <<0, 1>>),
      SamplesAlong(dim, <<1, 0>>, <<0, 0, 1>>),
      SamplesAlong(dim, <<1, 0>>, <<0, 0>>) }

\* PolyBezier<dim>::from_samples(samples, follow_tangent)
NewFromSamples ==
    /\ pc = "idle"
    /\ \E dim \in Dims : \E samples \in SampleLists(dim) : \E follow_tangent \in BOOLEAN :
           /\ query' = [method |-> "from_samples", samples |-> samples,
                        follow_tangent |-> follow_tangent]
           /\ IF PolyBezier_from_samples_throws(samples, follow_tangent)
              THEN /\ result' = [status |-> "runtime_error",
                                 what |-> PolyBezier_from_samples_what(samples, follow_tangent)]
                   /\ obj' = NoObject
              ELSE /\ result' = [status |-> "ok"]
                   /\ obj' = PolyBezier_from_samples(samples, follow_tangent)
    /\ pc' = "done"
    /\ UNCHANGED build

NextSamples ==
    \/ NewFromSamples
    \/ CurveTransform
    \/ Return
    \/ Destroy

SpecSamples == Init /\ [][NextSamples]_vars

\* C14: for m >= 3 sample points from_samples builds exactly 3*(m-1)+1 control
\* points in which control point 3*i equals sample i, and at every interior
\* sample i the two neighbouring handles are symmetric, cp[3i] - cp[3i-1] =
\* cp[3i+1] - cp[3i]; the curve passes through sample i at t = i/(m-1).
C14_FromSamplesInterpolates ==
    (/\ pc = "done"
     /\ query.method = "from_samples"
     /\ result.status = "ok") =>
        LET m == Len(query.samples)
            cp(k) == obj.m_points[k + 1]
        IN  /\ m >= 3
            /\ Len(obj.m_points) = 3 * (m - 1) + 1
            /\ \A i \in 0..(m - 1) :
                   /\ cp(3 * i) = query.samples[i + 1]
                   /\ PathPoint(obj, Rat(i, m - 1)) = query.samples[i + 1]
            /\ \A i \in 1..(m - 2) :
                   subtract(cp(3 * i), cp(3 * i - 1)) = subtract(cp(3 * i + 1), cp(3 * i))

\* a curve was built through four unevenly spaced samples
C14_Witness ==
    /\ pc = "done"
    /\ query.method = "from_samples"
    /\ result.status = "ok"
    /\ Len(query.samples) = 4
    /\ Len(obj.m_points) = 10
    /\ subtract(obj.m_points[5], obj.m_points[4]) # subtract(obj.m_points[2], obj.m_points[1])


-----------------------------------------------------------------------------
(* Construction: the caller constructs unions, primitives and a Scale with   *)
(* parameters below, at and above zero.                                      *)

\* radii and scale factors: negative, zero, positive
Radii == {Num(-1), Zero, One}

\* the control points and coefficients a Duchon interpolant is given
DuchonInputs ==
    { [points |-> << Vec(3, <<0, 0, 0>>), Vec(3, <<2, 0, 0>>) >>,
       rbf_coeffs |-> << <<One, Zero, Zero, Zero>>, <<Neg(One), Zero, Zero, Zero>> >>],
      [points |-> << Vec(3, <<0, 0, 0>>), Vec(3, <<2, 0, 0>>) >>,
       rbf_coeffs |-> << <<One, Zero, Zero, Zero>> >>],
      [points |-> << >>, rbf_coeffs |-> << >>] }

\* ImplicitUnion<dim, UnionType> u(f1, f2, smooth_distance), with any distance
ConstructImplicitUnion ==
    /\ pc = "idle"
    /\ \E dim \in Dims : \E UnionType \in BlendingFunction : \E s \in SmoothDistances :
           /\ query' = [method |-> "ImplicitUnion", smooth_distance |-> s]
           /\ obj' = ImplicitUnion(UnionType, FirstOperand(dim), SecondOperand(dim), s)
    /\ result' = [status |-> "ok"]
    /\ pc' = "done"
    /\ UNCHANGED build

\* ImplicitBall<dim> b(radius, center)
NewImplicitBall ==
    /\ pc = "idle"
    /\ \E dim \in Dims : \E radius \in Radii :
           /\ query' = [method |-> "ImplicitBall", radius |-> radius]
           /\ obj' = ImplicitBall(radius, Origin(dim))
    /\ result' = [status |-> "ok"]
    /\ pc' = "done"
    /\ UNCHANGED build

\* ImplicitCapsule<dim> c(radius, p1, p2)
NewImplicitCapsule ==
    /\ pc = "idle"
    /\ \E dim \in Dims : \E radius \in Radii :
           /\ query' = [method |-> "ImplicitCapsule", radius |-> radius]
           /\ obj' = ImplicitCapsule(radius, Origin(dim), Axis(dim, 1))
    /\ result' = [status |-> "ok"]
    /\ pc' = "done"
    /\ UNCHANGED build

\* ImplicitTorus t(R, r, center, normal)
NewImplicitTorus ==
    /\ pc = "idle"
    /\ \E R \in Radii : \E r \in Radii :
       \E normal \in {Axis(3, 3), Origin(3), Vec(3, <<2, 0, 0>>)} :
           /\ query' = [method |-> "ImplicitTorus", radius |-> Min(R, r)]
           /\ obj' = ImplicitTorus(R, r, Origin(3), normal)
    /\ result' = [status |-> "ok"]
    /\ pc' = "done"
    /\ UNCHANGED build

\* Duchon d(points, rbf_coeffs, affine_coeffs, center, radius, positive_inside)
NewDuchon ==
    /\ pc = "idle"
    /\ \E input \in DuchonInputs : \E radius \in Radii : \E positive_inside \in BOOLEAN :
           /\ query' = [method |-> "Duchon", radius |-> radius]
           /\ IF Duchon_ctor_throws(input.points, input.rbf_coeffs, radius)
              THEN /\ result' = [status |-> "runtime_error"]
                   /\ obj' = NoObject
              ELSE /\ result' = [status |-> "ok"]
                   /\ obj' = Duchon(input.points, input.rbf_coeffs, <<Zero, Zero, Zero, One>>,
                                    Axis(3, 1), radius, positive_inside)
    /\ pc' = "done"
    /\ UNCHANGED build

\* Scale<dim> T(factors, center), with any factors
ConstructScale ==
    /\ pc = "idle"
    /\ \E dim \in Dims : \E a \in Radii : \E b \in Radii :
           /\ query' = [method |-> "Scale", radius |-> Min(a, b)]
           /\ obj' = Scale([i \in 1..dim |-> IF i = 1 THEN a ELSE b], Origin(dim))
    /\ result' = [status |-> "ok"]
    /\ pc' = "done"
    /\ UNCHANGED build

NextConstruct ==
    \/ ConstructImplicitUnion
    \/ NewUnionFunction
    \/ NewImplicitBall
    \/ NewImplicitCapsule
    \/ NewImplicitTorus
    \/ NewDuchon
    \/ ConstructScale
    \/ PrimitiveValue
    \/ Return
    \/ Destroy

SpecConstruct == Init /\ [][NextConstruct]_vars

\* C19: constructing any blending operator with a negative smoothing distance
\* fails at construction with an error and yields no usable object, for the
\* field-level UnionFunction and for the primitive-level ImplicitUnion with every
\* kernel.
C19_NegativeDistanceRejected ==
    /\ (/\ pc = "done"
        /\ query.method \in {"UnionFunction", "ImplicitUnion"}
        /\ Lt(query.smooth_distance, Zero)) =>
           /\ result.status \in {"invalid_argument", "runtime_error"}
           /\ obj = NoObject
    /\ obj.type \in {"UnionFunction", "ImplicitUnion"} => Ge(obj.m_smooth_distance, Zero)

\* C20: constructing a primitive with a zero or negative radius (ImplicitBall,
\* ImplicitCapsule, ImplicitTorus, Duchon) or a Scale transform with a zero or
\* negative scale factor fails at construction with an error.
C20_NonPositiveSizeRejected ==
    (/\ pc = "done"
     /\ query.method \in {"ImplicitBall", "ImplicitCapsule", "ImplicitTorus", "Duchon",
                          "Scale"}
     /\ Le(query.radius, Zero)) =>
        /\ result.status \in {"invalid_argument", "runtime_error"}
        /\ obj = NoObject

-----------------------------------------------------------------------------
(* Curve construction: the caller builds curves from point lists and sample   *)
(* lists, valid or not, and evaluates the ones that were built.               *)

NextBuild ==
    \/ NewPolyline
    \/ NewPolyBezier
    \/ NewFromSamples
    \/ CurveTransform
    \/ Return
    \/ Destroy

SpecBuild == Init /\ [][NextBuild]_vars

\* C21: a curve that exists has a structurally valid point list (at least 2
\* points for a Polyline, 3k+1 >= 4 control points for a PolyBezier), and a
\* construction from an invalid list (or from fewer than 3 samples) ends in the
\* std::runtime_error of the size check, not in an error of the frame
\* computation, and leaves no object.
C21_InvalidListsRejected ==
    /\ obj.type = "Polyline" => Len(obj.m_points) >= 2
    /\ obj.type = "PolyBezier" =>
           /\ Len(obj.m_points) >= 4
           /\ (Len(obj.m_points) - 1) % 3 = 0
    /\ (pc = "done" /\ query.method = "Polyline" /\ Len(query.points) < 2) =>
           /\ result = [status |-> "runtime_error",
                        what |-> "Polyline must consist of at least 2 points."]
           /\ obj = NoObject
    /\ (pc = "done" /\ query.method = "PolyBezier" /\ Len(query.points) < 4) =>
           /\ result = [status |-> "runtime_error",
                        what |-> "PolyBezier must consist of at least 4 points."]
           /\ obj = NoObject
    /\ (/\ pc = "done"
        /\ query.method = "PolyBezier"
        /\ Len(query.points) >= 4
        /\ (Len(query.points) - 1) % 3 # 0) =>
           /\ result = [status |-> "runtime_error",
                        what |-> "PolyBezier must consist of a (n * 3) + 1 points."]
           /\ obj = NoObject
    /\ (pc = "done" /\ query.method = "from_samples" /\ Len(query.samples) < 3) =>
           /\ result = [status |-> "runtime_error",
                        what |-> "A minimum of 3 samples is required for PolyBezier construction."]
           /\ obj = NoObject

\* five equal control points were rejected: the count is wrong and every tangent
\* is zero
C21_Witness ==
    /\ pc = "done"
    /\ query.method = "PolyBezier"
    /\ Len(query.points) = 5
    /\ query.points[1] = query.points[2]
    /\ result.status = "runtime_error"

-----------------------------------------------------------------------------
(* Shared objects: several threads evaluate one object without               *)
(* synchronization.  In this specification pc, query and result hold one     *)
(* entry per thread, and build also records what an out-of-range access does *)
(* and finds in the memory around the object while the object lives.         *)

Threads == {1, 2}

SharedObjects(dim) ==
    { Polyline(TurnPoints(dim), TRUE),
      PolyBezier(Line(dim, 4), TRUE),
      SweepFunction(Paraboloid(Vec(dim, <<0, 1, 0>>), One), Polyline(TurnPoints(dim), TRUE)) }

SharedMethods(o) ==
    IF o.type \in CurveTypes THEN {"transform", "velocity", "position_Jacobian"}
    ELSE {"value", "time_derivative", "gradient"}

SharedTimes == {Half, One}

\* the object after an evaluation call: transform, velocity, position_Jacobian,
\* value, time_derivative and gradient are const member functions of classes
\* without mutable members, and assign to locals only
SharedEffect_switching(o, q) ==
    IF o.type \in CurveTypes THEN [o EXCEPT !.m_follow_tangent = FALSE] ELSE o

SharedEffect(o, q) == o

\* what the call q returns on the object o
SharedEvaluate(o, q, ub) ==
    IF o.type \in CurveTypes
    THEN [status |-> Curve_call(o, q.method, q.pos, q.t, ub).status,
          value |-> Curve_call(o, q.method, q.pos, q.t, ub).value]
    ELSE [status |-> "ok", value |-> Dispatch(o, q.method, q.pos, q.t)]

InitShared ==
    /\ build \in [absInt : BOOLEAN, ub : {[cast |-> "wrap", oob |-> "read", garbage |-> "zero"]}]
    /\ pc = [th \in Threads |-> "idle"]
    /\ obj = NoObject
    /\ query = [th \in Threads |-> NoQuery]
    /\ result = [th \in Threads |-> NoResult]

\* one thread constructs the object and hands it to the others
SharedBuild ==
    /\ \A th \in Threads : pc[th] = "idle"
    /\ \E dim \in Dims : \E o \in SharedObjects(dim) : \E ub \in UBOutcomes :
           /\ obj' = o
           /\ build' = [build EXCEPT !.ub = ub]
    /\ pc' = [th \in Threads |-> "built"]
    /\ UNCHANGED <<query, result>>

\* a thread enters an evaluation method of the shared object
SharedCall(th) ==
    /\ pc[th] = "built"
    /\ \E method \in SharedMethods(obj) : \E t \in SharedTimes :
           /\ obj.type \in CurveTypes => CurveInScalarModel(obj, t, build.ub)
           /\ query' = [query EXCEPT ![th] =
                  [method |-> method, pos |-> Vec(DimOf(obj), <<1, 0, 1>>), t |-> t]]
    /\ pc' = [pc EXCEPT ![th] = "running"]
    /\ UNCHANGED <<build, obj, result>>

\* the method runs on the object as it is now and returns
SharedFinish(th) ==
    /\ pc[th] = "running"
    /\ result' = [result EXCEPT ![th] = SharedEvaluate(obj, query[th], build.ub)]
    /\ obj' = SharedEffect(obj, query[th])
    /\ pc' = [pc EXCEPT ![th] = "done"]
    /\ UNCHANGED <<build, query>>

\* the thread takes the returned value (or catches the exception)
SharedReturn(th) ==
    /\ pc[th] = "done"
    /\ pc' = [pc EXCEPT ![th] = "built"]
    /\ query' = [query EXCEPT ![th] = NoQuery]
    /\ result' = [result EXCEPT ![th] = NoResult]
    /\ UNCHANGED <<build, obj>>

\* the object goes out of scope once no thread uses it
SharedDestroy ==
    /\ \A th \in Threads : pc[th] = "built"
    /\ pc' = [th \in Threads |-> "idle"]
    /\ obj' = NoObject
    /\ UNCHANGED <<build, query, result>>

NextShared ==
    \/ SharedBuild
    \/ \E th \in Threads : SharedCall(th)
    \/ \E th \in Threads : SharedFinish(th)
    \/ \E th \in Threads : SharedReturn(th)
    \/ SharedDestroy

SpecShared == InitShared /\ [][NextShared]_vars

-----------------------------------------------------------------------------
(* yaml_parser.h, yaml_parser.cpp.  A scene is the node tree YAML::Load     *)
(* hands to parse_from_node: a mapping is a record holding the keys that    *)
(* are present, a sequence is a sequence, a number is a Scalar.  Parsed     *)
(* objects live in a heap, a sequence of cells; an address is an index      *)
(* into it, and the data members that are C++ references or pointers hold   *)
(* addresses.  The primitive types torus and duchon, the transform type     *)
(* rotation, the points files and the single-variable functions other than  *)
(* constant and linear take no part in the scenes of the model.             *)

\* if (node[field_name])
Has(node, field_name) == field_name \in DOMAIN node

\* throw YamlParseError(message + arg)
YamlParseError(message, arg) ==
    [status |-> "YamlParseError", what |-> message, arg |-> arg]

\* an exception of the library that the parser lets through
LibraryError(status, message) == [status |-> status, what |-> message, arg |-> ""]

Parsed(value) == [status |-> "ok", value |-> value]

\* a cell whose object was deleted
Destroyed == [type |-> "destroyed"]

\* std::make_unique<T>(...): a new cell, owned by the unique_ptr that is returned
make_unique(heap, context, object) ==
    [status |-> "ok", heap |-> Append(heap, object), context |-> context,
     ptr |-> Len(heap) + 1]

\* a unique_ptr that still owns its object is assigned or goes out of scope
unique_ptr_reset(heap, ptr) == [heap EXCEPT ![ptr] = Destroyed]

\* Context<dim>: three vectors of unique_ptr
Context == [primitives |-> << >>, transforms |-> << >>, functions |-> << >>]

Context_add_primitive(context, primitive) ==
    [context EXCEPT !.primitives = Append(@, primitive)]

Context_add_transform(context, transform) ==
    [context EXCEPT !.transforms = Append(@, transform)]

Context_add_function(context, function) ==
    [context EXCEPT !.functions = Append(@, function)]

RECURSIVE Context_add_all(_, _, _, _)
\* for (auto& x : xs) ptrs.push_back(context.add_...(std::move(x)))
Context_add_all(context, member, ptrs, i) ==
    IF i > Len(ptrs) THEN context
    ELSE Context_add_all([context EXCEPT ![member] = Append(@, ptrs[i])],
                         member, ptrs, i + 1)

ManagedSpaceTimeFunction(function, context) ==
    [type |-> "ManagedSpaceTimeFunction", m_function |-> function,
     m_context |-> context]

\* std::array<Scalar, dim> parse_array(node, field_name)
parse_array(node, field_name, dim) ==
    IF ~Has(node, field_name) THEN YamlParseError("Missing required field: ", field_name)
    ELSE IF Len(node[field_name]) # dim
         THEN YamlParseError("Field must have exactly dim elements: ", field_name)
         ELSE Parsed(node[field_name])

\* Scalar parse_scalar(node, field_name)
parse_scalar(node, field_name) ==
    IF ~Has(node, field_name) THEN YamlParseError("Missing required field: ", field_name)
    ELSE Parsed(node[field_name])

\* void validate_dimension(node): only a dimension that is present is compared
validate_dimension(node, dim) ==
    IF Has(node, "dimension") /\ node.dimension # dim
    THEN YamlParseError("Dimension mismatch: YAML specifies ", node.dimension)
    ELSE Parsed(dim)

\* void validate_required_field(node, field_name)
validate_required_field(node, field_name) ==
    IF ~Has(node, field_name) THEN YamlParseError("Missing required field: ", field_name)
    ELSE Parsed(field_name)

\* parse_ball: radius, center, degree (default 1)
parse_ball(node, dim) ==
    IF parse_scalar(node, "radius").status # "ok" THEN parse_scalar(node, "radius")
    ELSE IF parse_array(node, "center", dim).status # "ok"
         THEN parse_array(node, "center", dim)
         ELSE Parsed(ImplicitBall(node.radius, node.center))

\* parse_capsule: 3D only; start, end, radius
parse_capsule(node, dim) ==
    IF dim # 3 THEN YamlParseError("Capsule primitive is only supported in 3D", "")
    ELSE IF parse_array(node, "start", dim).status # "ok"
         THEN parse_array(node, "start", dim)
         ELSE IF parse_array(node, "end", dim).status # "ok"
              THEN parse_array(node, "end", dim)
              ELSE IF parse_scalar(node, "radius").status # "ok"
                   THEN parse_scalar(node, "radius")
                   ELSE Parsed(ImplicitCapsule(node.radius, node.start, node.end))

\* parse_translation: vector
parse_translation(node, dim) ==
    IF parse_array(node, "vector", dim).status # "ok"
    THEN parse_array(node, "vector", dim)
    ELSE Parsed(Translation(node.vector))

\* parse_scale: factors, center (default 0)
parse_scale(node, dim) ==
    IF parse_array(node, "factors", dim).status # "ok"
    THEN parse_array(node, "factors", dim)
    ELSE IF Has(node, "center") /\ parse_array(node, "center", dim).status # "ok"
         THEN parse_array(node, "center", dim)
         ELSE Parsed(Scale(node.factors,
                           IF Has(node, "center") THEN node.center
                           ELSE [i \in 1..dim |-> Zero]))

\* the first point of an inline list whose size is not dim, or 0
WrongSizePoint(points, dim) ==
    IF \E i \in 1..Len(points) : Len(points[i]) # dim
    THEN CHOOSE i \in 1..Len(points) :
             /\ Len(points[i]) # dim
             /\ \A j \in 1..(i - 1) : Len(points[j]) = dim
    ELSE 0

\* parse_polyline: inline points; Polyline<dim>(points) follows the tangent
parse_polyline(node, dim) ==
    IF ~Has(node, "points")
    THEN YamlParseError("Polyline requires either 'points' or 'points_file' field", "")
    ELSE IF WrongSizePoint(node.points, dim) # 0
         THEN YamlParseError("Each point must have exactly dim coordinates", "")
         ELSE IF Len(node.points) < 2
              THEN YamlParseError("Polyline must have at least 2 points", "")
              ELSE IF Polyline_ctor_throws(node.points, TRUE)
                   THEN LibraryError("runtime_error",
                                     Polyline_ctor_what(node.points, TRUE))
                   ELSE Parsed(Polyline(node.points, TRUE))

\* bool parse_bool(node, "follow_tangent", true)
parse_follow_tangent(node) ==
    IF Has(node, "follow_tangent") THEN node.follow_tangent ELSE TRUE

\* parse_polybezier: inline control_points, else inline sample_points
parse_polybezier(node, dim) ==
    IF Has(node, "control_points")
    THEN IF WrongSizePoint(node.control_points, dim) # 0
         THEN YamlParseError("Each control point must have exactly dim coordinates", "")
         ELSE IF Len(node.control_points) < 4
              THEN YamlParseError("PolyBezier must have at least 4 control points", "")
              ELSE IF (Len(node.control_points) - 1) % 3 # 0
                   THEN YamlParseError("PolyBezier must have (n * 3) + 1 control points", "")
                   ELSE IF PolyBezier_ctor_throws(node.control_points,
                                                  parse_follow_tangent(node))
                        THEN LibraryError("runtime_error",
                                          PolyBezier_ctor_what(node.control_points,
                                                               parse_follow_tangent(node)))
                        ELSE Parsed(PolyBezier(node.control_points,
                                               parse_follow_tangent(node)))
    ELSE IF Has(node, "sample_points")
         THEN IF WrongSizePoint(node.sample_points, dim) # 0
              THEN YamlParseError("Each sample point must have exactly dim coordinates", "")
              ELSE IF Len(node.sample_points) < 3
                   THEN YamlParseError(
                            "PolyBezier from samples must have at least 3 sample points", "")
                   ELSE IF PolyBezier_from_samples_throws(node.sample_points,
                                                          parse_follow_tangent(node))
                        THEN LibraryError("runtime_error",
                                 PolyBezier_from_samples_what(node.sample_points,
                                                              parse_follow_tangent(node)))
                        ELSE Parsed(PolyBezier_from_samples(node.sample_points,
                                                            parse_follow_tangent(node)))
         ELSE YamlParseError("PolyBezier requires one of: 'control_points_file', 'sample_points_file', 'control_points', or 'sample_points' field", "")

\* parse_single_variable_function_with_derivative(node, field_name): the pair of
\* callables; constant and linear are the affine signal of the model
parse_single_variable_function_with_derivative(node, field_name) ==
    IF ~Has(node, field_name) THEN YamlParseError("Missing required field: ", field_name)
    ELSE IF ~Has(node[field_name], "type")
         THEN YamlParseError("Missing required field: ", "type")
         ELSE CASE node[field_name].type = "constant" ->
                     IF parse_scalar(node[field_name], "value").status # "ok"
                     THEN parse_scalar(node[field_name], "value")
                     ELSE Parsed([kind |-> "affine", c |-> Zero,
                                  c0 |-> node[field_name].value])
                [] node[field_name].type = "linear" ->
                     IF parse_scalar(node[field_name], "slope").status # "ok"
                     THEN parse_scalar(node[field_name], "slope")
                     ELSE IF parse_scalar(node[field_name], "intercept").status # "ok"
                          THEN parse_scalar(node[field_name], "intercept")
                          ELSE Parsed([kind |-> "affine", c |-> node[field_name].slope,
                                       c0 |-> node[field_name].intercept])
                [] node[field_name].type \notin {"constant", "linear", "polynomial",
                                                 "sinusoidal", "exponential", "polybezier"} ->
                     YamlParseError("Unknown single-variable function type: ",
                                    node[field_name].type)
RECURSIVE parse_primitive(_, _, _, _)
RECURSIVE parse_transform(_, _, _, _)
RECURSIVE parse_from_node(_, _, _)
RECURSIVE parse_primitives(_, _, _, _, _, _)
RECURSIVE parse_transforms(_, _, _, _, _, _)
RECURSIVE parse_functions(_, _, _, _, _)
RECURSIVE parse_primitives_push(_, _, _, _, _)
RECURSIVE parse_transforms_push(_, _, _, _, _)
RECURSIVE parse_functions_push(_, _, _, _, _)
RECURSIVE parse_implicit_union_tree(_, _, _, _, _, _, _)
RECURSIVE parse_compose_chain(_, _, _, _, _)
RECURSIVE parse_union_function_tree(_, _, _, _, _, _)

\* the unique_ptr a leaf parser returned, or its exception
parse_leaf(r, heap, context) ==
    IF r.status # "ok" THEN r ELSE make_unique(heap, context, r.value)

\* push_back of one parsed primitive, or its exception
parse_primitives_push(nodes, i, r, dim, ptrs) ==
    IF r.status # "ok" THEN r
    ELSE parse_primitives(nodes, i + 1, r.heap, r.context, dim, Append(ptrs, r.ptr))

\* for (primitive_node : node["primitives"]) primitives.push_back(parse_primitive(...))
parse_primitives(nodes, i, heap, context, dim, ptrs) ==
    IF i > Len(nodes)
    THEN [status |-> "ok", heap |-> heap, context |-> context, ptrs |-> ptrs]
    ELSE parse_primitives_push(nodes, i, parse_primitive(nodes[i], heap, context, dim),
                               dim, ptrs)

\* push_back of one parsed transform, or its exception
parse_transforms_push(nodes, i, r, dim, ptrs) ==
    IF r.status # "ok" THEN r
    ELSE parse_transforms(nodes, i + 1, r.heap, r.context, dim, Append(ptrs, r.ptr))

\* for (transform_node : node["transforms"]) transforms.push_back(parse_transform(...))
parse_transforms(nodes, i, heap, context, dim, ptrs) ==
    IF i > Len(nodes)
    THEN [status |-> "ok", heap |-> heap, context |-> context, ptrs |-> ptrs]
    ELSE parse_transforms_push(nodes, i, parse_transform(nodes[i], heap, context, dim),
                               dim, ptrs)

\* push_back of one parsed function, or its exception
parse_functions_push(nodes, i, r, dim, ptrs) ==
    IF r.status # "ok" THEN r
    ELSE parse_functions(nodes, i + 1, r.heap, dim, Append(ptrs, r.ptr))

\* for (func_node : node["functions"]) functions.push_back(parse_from_node(func_node))
parse_functions(nodes, i, heap, dim, ptrs) ==
    IF i > Len(nodes) THEN [status |-> "ok", heap |-> heap, ptrs |-> ptrs]
    ELSE parse_functions_push(nodes, i, parse_from_node(nodes[i], heap, dim), dim, ptrs)

\* the enumerator of a blending name, "" for an unknown one
parse_blending(node) ==
    IF ~Has(node, "blending") THEN "Quadratic"
    ELSE CASE node.blending = "quadratic" -> "Quadratic"
           [] node.blending = "cubic" -> "Cubic"
           [] node.blending = "quartic" -> "Quartic"
           [] node.blending = "circular" -> "Circular"
           [] OTHER -> ""

\* smooth_distance, optional, default 0
parse_smooth_distance(node) ==
    IF Has(node, "smooth_distance") THEN node.smooth_distance ELSE Zero

\* the loop of parse_implicit_union from i = 2 (ptrs[i + 1] here): the context
\* takes the union built so far, the next union refers to it
parse_implicit_union_tree(heap, context, ptrs, result_ptr, i, UnionType, smooth_distance) ==
    IF i > Len(ptrs)
    THEN [status |-> "ok", heap |-> heap, context |-> context, ptr |-> result_ptr]
    ELSE parse_implicit_union_tree(
             Append(heap, ImplicitUnion(UnionType, result_ptr, ptrs[i], smooth_distance)),
             Context_add_primitive(context, result_ptr), ptrs, Len(heap) + 1, i + 1,
             UnionType, smooth_distance)

\* parse_implicit_union from the parsed primitives on
parse_implicit_union_of(node, r) ==
    IF r.status # "ok" THEN r
    ELSE IF parse_blending(node) = ""
         THEN YamlParseError("Unknown blending function: ", node.blending)
         ELSE parse_implicit_union_tree(
                  Append(r.heap, ImplicitUnion(parse_blending(node), r.ptrs[1], r.ptrs[2],
                                               parse_smooth_distance(node))),
                  Context_add_all(r.context, "primitives", r.ptrs, 1), r.ptrs,
                  Len(r.heap) + 1, 3, parse_blending(node), parse_smooth_distance(node))

parse_implicit_union(node, heap, context, dim) ==
    IF ~Has(node, "primitives") THEN YamlParseError("Missing required field: ", "primitives")
    ELSE IF Len(node.primitives) < 2
         THEN YamlParseError("Implicit union requires at least 2 primitives", "")
         ELSE parse_implicit_union_of(
                  node, parse_primitives(node.primitives, 1, heap, context, dim, << >>))

parse_primitive(node, heap, context, dim) ==
    IF ~Has(node, "type") THEN YamlParseError("Missing required field: ", "type")
    ELSE CASE node.type = "ball" -> parse_leaf(parse_ball(node, dim), heap, context)
           [] node.type = "capsule" -> parse_leaf(parse_capsule(node, dim), heap, context)
           [] node.type = "implicit_union" -> parse_implicit_union(node, heap, context, dim)
           [] node.type \notin {"ball", "capsule", "torus", "duchon", "implicit_union"} ->
                YamlParseError("Unknown primitive type: ", node.type)

\* the loop of parse_compose from i = 2
parse_compose_chain(heap, context, ptrs, result_ptr, i) ==
    IF i > Len(ptrs)
    THEN [status |-> "ok", heap |-> heap, context |-> context, ptr |-> result_ptr]
    ELSE parse_compose_chain(Append(heap, Compose(result_ptr, ptrs[i])),
                             Context_add_transform(context, result_ptr), ptrs,
                             Len(heap) + 1, i + 1)

\* parse_compose from the parsed transforms on
parse_compose_of(r) ==
    IF r.status # "ok" THEN r
    ELSE IF Len(r.ptrs) < 2
         THEN YamlParseError("Compose transform requires at least 2 transforms", "")
         ELSE parse_compose_chain(Append(r.heap, Compose(r.ptrs[1], r.ptrs[2])),
                                  Context_add_all(r.context, "transforms", r.ptrs, 1),
                                  r.ptrs, Len(r.heap) + 1, 3)

parse_compose(node, heap, context, dim) ==
    IF ~Has(node, "transforms") THEN YamlParseError("Missing required field: ", "transforms")
    ELSE parse_compose_of(parse_transforms(node.transforms, 1, heap, context, dim, << >>))

parse_transform(node, heap, context, dim) ==
    IF ~Has(node, "type") THEN YamlParseError("Missing required field: ", "type")
    ELSE CASE node.type = "translation" ->
                parse_leaf(parse_translation(node, dim), heap, context)
           [] node.type = "scale" -> parse_leaf(parse_scale(node, dim), heap, context)
           [] node.type = "compose" -> parse_compose(node, heap, context, dim)
           [] node.type = "polyline" -> parse_leaf(parse_polyline(node, dim), heap, context)
           [] node.type = "polybezier" ->
                parse_leaf(parse_polybezier(node, dim), heap, context)
           [] node.type \notin {"translation", "scale", "rotation", "compose", "polyline",
                                "polybezier"} ->
                YamlParseError("Unknown transform type: ", node.type)

\* parse_sweep_function from the parsed transform on: the context takes both
parse_sweep_function_store(p, T) ==
    IF T.status # "ok" THEN T
    ELSE make_unique(T.heap,
                     Context_add_transform(Context_add_primitive(T.context, p.ptr), T.ptr),
                     SweepFunction(p.ptr, T.ptr))

\* parse_sweep_function from the parsed primitive on
parse_sweep_function_with(node, p, dim) ==
    IF p.status # "ok" THEN p
    ELSE parse_sweep_function_store(
             p, parse_transform(node.transform, p.heap, p.context, dim))

parse_sweep_function(node, heap, context, dim) ==
    IF ~Has(node, "primitive") THEN YamlParseError("Missing required field: ", "primitive")
    ELSE IF ~Has(node, "transform")
         THEN YamlParseError("Missing required field: ", "transform")
         ELSE parse_sweep_function_with(
                  node, parse_primitive(node.primitive, heap, context, dim), dim)

\* parse_offset_function from the parsed base function on: offset_function is
\* required, the base function goes to the context after it was parsed
parse_offset_function_with(node, base_function, context) ==
    IF base_function.status # "ok" THEN base_function
    ELSE IF ~Has(node, "offset_function")
         THEN YamlParseError("Missing required field: ", "offset_function")
         ELSE IF parse_single_variable_function_with_derivative(
                     node, "offset_function").status # "ok"
              THEN parse_single_variable_function_with_derivative(node, "offset_function")
              ELSE make_unique(
                       base_function.heap,
                       Context_add_function(context, base_function.ptr),
                       OffsetFunction(
                           base_function.ptr,
                           parse_single_variable_function_with_derivative(
                               node, "offset_function").value,
                           parse_single_variable_function_with_derivative(
                               node, "offset_function").value))

parse_offset_function(node, heap, context, dim) ==
    IF ~Has(node, "base_function")
    THEN YamlParseError("Missing required field: ", "base_function")
    ELSE parse_offset_function_with(node, parse_from_node(node.base_function, heap, dim),
                                    context)

\* auto* prev_union = context.add_function(std::move(result)) without the
\* std::move into the context: result still owns the union when the next one is
\* assigned to it, which deletes it
parse_union_function_store_unowned(heap, context, result_ptr) ==
    [heap |-> unique_ptr_reset(heap, result_ptr), context |-> context]

\* auto* prev_union = context.add_function(std::move(result))
parse_union_function_store(heap, context, result_ptr) ==
    [heap |-> heap, context |-> Context_add_function(context, result_ptr)]

\* the loop of parse_union_function from i = 2
parse_union_function_tree(heap, context, ptrs, result_ptr, i, smooth_distance) ==
    IF i > Len(ptrs)
    THEN [status |-> "ok", heap |-> heap, context |-> context, ptr |-> result_ptr]
    ELSE parse_union_function_tree(
             Append(parse_union_function_store(heap, context, result_ptr).heap,
                    UnionFunction(result_ptr, ptrs[i], smooth_distance)),
             parse_union_function_store(heap, context, result_ptr).context,
             ptrs, Len(heap) + 1, i + 1, smooth_distance)

\* parse_union_function from the parsed functions on; the constructor of
\* UnionFunction throws std::invalid_argument for a negative smooth_distance
parse_union_function_of(node, r, context) ==
    IF r.status # "ok" THEN r
    ELSE IF Len(r.ptrs) < 2
         THEN YamlParseError("Union function requires at least 2 functions", "")
         ELSE IF UnionFunction_ctor_throws(parse_smooth_distance(node))
              THEN LibraryError("invalid_argument", "smooth_distance must be non-negative")
              ELSE parse_union_function_tree(
                       Append(r.heap, UnionFunction(r.ptrs[1], r.ptrs[2],
                                                    parse_smooth_distance(node))),
                       Context_add_all(context, "functions", r.ptrs, 1), r.ptrs,
                       Len(r.heap) + 1, 3, parse_smooth_distance(node))

parse_union_function(node, heap, context, dim) ==
    IF ~Has(node, "functions") THEN YamlParseError("Missing required field: ", "functions")
    ELSE parse_union_function_of(node, parse_functions(node.functions, 1, heap, dim, << >>),
                                 context)

\* interpolation_type, optional, default linear; "" for a rejected one
parse_interpolation_type(node) ==
    IF ~Has(node, "interpolation_type") THEN "default"
    ELSE CASE node.interpolation_type = "linear" -> "default"
           [] node.interpolation_type = "smooth" -> "smooth"
           [] node.interpolation_type = "cosine" -> "cosine"
           [] OTHER -> ""

\* parse_interpolate_function from the two parsed functions on
parse_interpolate_function_with(node, function1, function2, context) ==
    IF function1.status # "ok" THEN function1
    ELSE IF function2.status # "ok" THEN function2
         ELSE IF Has(node, "num_periods") /\ Le(node.num_periods, Zero)
              THEN YamlParseError("num_periods must be positive", "")
              ELSE IF parse_interpolation_type(node) = ""
                   THEN YamlParseError("Unknown interpolation type: ",
                                       node.interpolation_type)
                   ELSE make_unique(
                            function2.heap,
                            Context_add_function(
                                Context_add_function(context, function1.ptr),
                                function2.ptr),
                            InterpolateFunction(function1.ptr, function2.ptr,
                                                parse_interpolation_type(node),
                                                parse_interpolation_type(node)))

\* function2 is parsed only when function1 was
parse_interpolate_function_second(node, function1, context, dim) ==
    IF function1.status # "ok" THEN function1
    ELSE parse_interpolate_function_with(
             node, function1, parse_from_node(node.function2, function1.heap, dim), context)

parse_interpolate_function(node, heap, context, dim) ==
    IF ~Has(node, "function1") THEN YamlParseError("Missing required field: ", "function1")
    ELSE IF ~Has(node, "function2")
         THEN YamlParseError("Missing required field: ", "function2")
         ELSE parse_interpolate_function_second(
                  node, parse_from_node(node.function1, heap, dim), context, dim)

\* the function of the scene's type with the context it filled
parse_from_node_typed(node, heap, dim) ==
    CASE node.type = "explicit" ->
           YamlParseError("Explicit form functions cannot be defined in YAML.", "")
      [] node.type = "sweep" -> parse_sweep_function(node, heap, Context, dim)
      [] node.type = "offset" -> parse_offset_function(node, heap, Context, dim)
      [] node.type = "union" -> parse_union_function(node, heap, Context, dim)
      [] node.type = "interpolate" -> parse_interpolate_function(node, heap, Context, dim)
      [] OTHER -> YamlParseError("Unknown space-time function type: ", node.type)

\* return std::make_unique<ManagedSpaceTimeFunction<dim>>(function, context)
parse_from_node_wrap(r) ==
    IF r.status # "ok" THEN r
    ELSE [status |-> "ok", heap |-> Append(r.heap, ManagedSpaceTimeFunction(r.ptr, r.context)),
          ptr |-> Len(r.heap) + 1]

parse_from_node(node, heap, dim) ==
    IF validate_dimension(node, dim).status # "ok" THEN validate_dimension(node, dim)
    ELSE IF validate_required_field(node, "type").status # "ok"
         THEN validate_required_field(node, "type")
         ELSE parse_from_node_wrap(parse_from_node_typed(node, heap, dim))

\* parse_from_string(yaml_string) from the loaded node on: only YAML::Exception
\* is caught and turned into YamlParseError, every other exception passes
parse_from_string(node, dim) == parse_from_node(node, << >>, dim)
\* the addresses held by the reference and pointer members of a cell
References(cell) ==
    CASE cell.type = "ManagedSpaceTimeFunction" -> {cell.m_function}
      [] cell.type = "SweepFunction" -> {cell.m_implicit_function, cell.m_transform}
      [] cell.type \in {"UnionFunction", "InterpolateFunction", "ImplicitUnion"} ->
           {cell.m_f1, cell.m_f2}
      [] cell.type = "OffsetFunction" -> {cell.m_f}
      [] cell.type = "Compose" -> {cell.m_transform1, cell.m_transform2}
      [] OTHER -> {}

\* the addresses a cell owns through unique_ptr: m_function and the three
\* vectors of m_context
Owns(cell) ==
    IF cell.type # "ManagedSpaceTimeFunction" THEN {}
    ELSE {cell.m_function}
         \cup {cell.m_context.primitives[i] : i \in 1..Len(cell.m_context.primitives)}
         \cup {cell.m_context.transforms[i] : i \in 1..Len(cell.m_context.transforms)}
         \cup {cell.m_context.functions[i] : i \in 1..Len(cell.m_context.functions)}

RECURSIVE Followed(_, _)
\* every address an evaluation that starts at the cells of from dereferences
Followed(heap, from) ==
    IF (UNION {References(heap[a]) : a \in from}) \subseteq from THEN from
    ELSE Followed(heap, from \cup UNION {References(heap[a]) : a \in from})

RECURSIVE OwnedBy(_, _)
\* every address owned, directly or through the functions they own, by the cells of owners
OwnedBy(heap, owners) ==
    IF (UNION {Owns(heap[a]) : a \in owners}) \subseteq owners THEN owners
    ELSE OwnedBy(heap, owners \cup UNION {Owns(heap[a]) : a \in owners})

\* ManagedSpaceTimeFunction::value / time_derivative / gradient forward to
\* m_function, which follows its references; following a reference to a deleted
\* object is undefined
ManagedSpaceTimeFunction_evaluate(heap, ptr, outcome) ==
    IF \E a \in Followed(heap, {ptr}) : heap[a] = Destroyed
    THEN [status |-> "undefined", outcome |-> outcome]
    ELSE [status |-> "ok", followed |-> Followed(heap, {ptr})]

\* what the read of a deleted object does
DanglingOutcomes == {"fault", "stale"}

SceneBall(dim) == [type |-> "ball", radius |-> One, center |-> Vec(dim, <<0, 0, 0>>)]

ScenePrimitives(dim) ==
    {SceneBall(dim),
     [type |-> "ball", radius |-> One],
     [type |-> "ball", radius |-> One, center |-> Vec(5 - dim, <<0, 0, 0>>)],
     [type |-> "cube"],
     [radius |-> One],
     [type |-> "implicit_union", primitives |-> << SceneBall(dim) >>],
     [type |-> "implicit_union",
      primitives |-> << SceneBall(dim), SceneBall(dim), SceneBall(dim) >>]}

SceneTranslation(dim) == [type |-> "translation", vector |-> Vec(dim, <<1, 0, 0>>)]

\* two equal points: a zero-length segment
ScenePolylineStalled(dim) ==
    [type |-> "polyline", points |-> << Vec(dim, <<0, 0, 0>>), Vec(dim, <<0, 0, 0>>) >>]

SceneTransforms(dim) ==
    {SceneTranslation(dim),
     [type |-> "translation", vector |-> Vec(5 - dim, <<1, 0, 0>>)],
     [type |-> "translation"],
     [type |-> "shear"],
     [type |-> "polyline", points |-> Line(dim, 1)],
     [type |-> "polyline", points |-> Line(dim, 2)],
     [type |-> "polyline", points |-> << Vec(dim, <<0, 0, 0>>), Vec(5 - dim, <<1, 0, 0>>) >>],
     ScenePolylineStalled(dim),
     [type |-> "polybezier", control_points |-> Line(dim, 2)],
     [type |-> "polybezier", control_points |-> Line(dim, 4)],
     [type |-> "polybezier", control_points |-> Line(dim, 5)],
     [type |-> "polybezier", sample_points |-> Line(dim, 2)],
     [type |-> "polybezier", sample_points |-> Line(dim, 3)],
     [type |-> "polybezier"],
     [type |-> "compose", transforms |-> << SceneTranslation(dim) >>],
     [type |-> "compose",
      transforms |-> << SceneTranslation(dim), SceneTranslation(dim),
                        SceneTranslation(dim) >>],
     [type |-> "compose", transforms |-> << ScenePolylineStalled(dim), [type |-> "shear"] >>]}

SceneSweep(dim) ==
    [type |-> "sweep", primitive |-> SceneBall(dim), transform |-> SceneTranslation(dim)]

SceneSweeps(dim) ==
    {[type |-> "sweep", primitive |-> p, transform |-> T] :
         p \in ScenePrimitives(dim), T \in SceneTransforms(dim)}
    \cup {[type |-> "sweep", dimension |-> d, primitive |-> SceneBall(dim),
           transform |-> SceneTranslation(dim)] : d \in Dims}
    \cup {[type |-> "sweep", primitive |-> SceneBall(dim)],
          [type |-> "sweep", transform |-> SceneTranslation(dim)]}

SceneSweepStalled(dim) ==
    [type |-> "sweep", primitive |-> SceneBall(dim), transform |-> ScenePolylineStalled(dim)]

SceneConstant == [type |-> "constant", value |-> Rat(1, 5)]

SceneFunctions(dim) ==
    {[type |-> "union", functions |-> fs] :
         fs \in {<< SceneSweep(dim) >>,
                 << SceneSweep(dim), SceneSweep(dim) >>,
                 << SceneSweep(dim), SceneSweep(dim), SceneSweep(dim) >>,
                 << SceneSweep(dim), SceneSweep(dim), SceneSweep(dim), SceneSweep(dim) >>,
                 << SceneSweep(dim), [type |-> "sweep", primitive |-> [type |-> "cube"],
                                      transform |-> SceneTranslation(dim)] >>,
                 << SceneSweepStalled(dim), SceneSweep(dim) >>,
                 << SceneSweepStalled(dim), [type |-> "tween"] >>,
                 << SceneSweep(dim),
                    [type |-> "union", functions |-> << SceneSweep(dim), SceneSweep(dim),
                                                        SceneSweep(dim) >>] >>}}
    \cup {[type |-> "union"],
          [type |-> "union", smooth_distance |-> Num(-1),
           functions |-> << SceneSweep(dim), SceneSweep(dim) >>],
          [type |-> "union", smooth_distance |-> Half,
           functions |-> << SceneSweep(dim), SceneSweep(dim), SceneSweep(dim) >>],
          [type |-> "offset", base_function |-> SceneSweep(dim),
           offset_function |-> SceneConstant],
          [type |-> "offset", base_function |-> SceneSweep(dim),
           offset_function |-> [type |-> "linear", slope |-> One, intercept |-> Zero]],
          [type |-> "offset", base_function |-> SceneSweep(dim),
           offset_function |-> [type |-> "linear", slope |-> One]],
          [type |-> "offset", base_function |-> SceneSweep(dim),
           offset_function |-> [type |-> "step"]],
          [type |-> "offset", dimension |-> dim, base_function |-> SceneSweep(dim),
           offset |-> Rat(1, 5), offset_derivative |-> Zero],
          [type |-> "offset", base_function |-> SceneSweep(dim)],
          [type |-> "offset", offset_function |-> SceneConstant],
          [type |-> "interpolate", function1 |-> SceneSweep(dim),
           function2 |-> SceneSweep(dim)],
          [type |-> "interpolate", function1 |-> SceneSweep(dim),
           function2 |-> SceneSweep(dim), interpolation_type |-> "custom"],
          [type |-> "interpolate", function1 |-> SceneSweep(dim)],
          [type |-> "interpolate", function2 |-> SceneSweep(dim)],
          [type |-> "explicit"],
          [type |-> "tween"],
          [dimension |-> dim]}

Scenes(dim) == SceneSweeps(dim) \cup SceneFunctions(dim)

\* auto func = YamlParser<dim>::parse_from_string(yaml_content)
ParseFromString ==
    /\ pc = "idle"
    /\ \E dim \in Dims : \E node \in Scenes(dim) :
           /\ query' = [method |-> "parse_from_string", node |-> node, dim |-> dim]
           /\ IF parse_from_string(node, dim).status = "ok"
              THEN /\ result' = [status |-> "ok"]
                   /\ obj' = [type |-> "unique_ptr", dim |-> dim,
                              heap |-> parse_from_string(node, dim).heap,
                              ptr |-> parse_from_string(node, dim).ptr]
              ELSE /\ result' = parse_from_string(node, dim)
                   /\ obj' = NoObject
    /\ pc' = "done"
    /\ UNCHANGED build

\* func->value(pos, t), func->time_derivative(pos, t), func->gradient(pos, t)
ParsedEvaluate ==
    /\ pc = "built"
    /\ obj.type = "unique_ptr"
    /\ \E method \in {"value", "time_derivative", "gradient"} :
       \E pos \in Positions(obj.dim) : \E outcome \in DanglingOutcomes :
           /\ query' = [method |-> method, pos |-> pos, t |-> Half]
           /\ result' = ManagedSpaceTimeFunction_evaluate(obj.heap, obj.ptr, outcome)
    /\ pc' = "done"
    /\ UNCHANGED <<build, obj>>

NextParse ==
    \/ ParseFromString
    \/ ParsedEvaluate
    \/ Return
    \/ Destroy

SpecParse == Init /\ [][NextParse]_vars

\* C23: while the function the parser returned is alive, every object an
\* evaluation reaches from it through references is alive and is owned by the
\* returned ManagedSpaceTimeFunction (through its context, or through the
\* context of a sub-function it owns), the intermediate unions and composites
\* of the n-ary lists included; so every evaluation returns normally.
C23_ParsedObjectsOwned ==
    /\ obj.type = "unique_ptr" =>
           /\ obj.heap[obj.ptr].type = "ManagedSpaceTimeFunction"
           /\ \A a \in Followed(obj.heap, {obj.ptr}) :
                  /\ obj.heap[a] # Destroyed
                  /\ a \in OwnedBy(obj.heap, {obj.ptr})
    /\ (pc = "done" /\ query.method \in {"value", "time_derivative", "gradient"}) =>
           result.status = "ok"

\* a union of four functions was parsed and evaluated: its first operand is an
\* intermediate union whose first operand is an intermediate union again
C23_Witness ==
    /\ pc = "done"
    /\ query.method = "value"
    /\ result.status = "ok"
    /\ obj.type = "unique_ptr"
    /\ obj.heap[obj.heap[obj.ptr].m_function].type = "UnionFunction"
    /\ obj.heap[obj.heap[obj.heap[obj.ptr].m_function].m_f1].type = "UnionFunction"
    /\ obj.heap[obj.heap[obj.heap[obj.heap[obj.ptr].m_function].m_f1].m_f1].type
           = "UnionFunction"
    /\ Len(obj.heap[obj.ptr].m_context.functions) = 6

-----------------------------------------------------------------------------
(* The structurally invalid scenes: what a scene description must satisfy   *)
(* whatever the parser does with it.                                        *)

RECURSIVE InvalidPrimitive(_, _)
RECURSIVE InvalidTransform(_, _)
RECURSIVE InvalidFunction(_, _)

\* a required array is missing or its length is not the dimension
InvalidArray(node, field_name, dim) ==
    ~Has(node, field_name) \/ Len(node[field_name]) # dim

\* a list of points is missing, is too short or holds a point of the wrong size
InvalidPoints(node, field_name, dim, least) ==
    \/ ~Has(node, field_name)
    \/ Len(node[field_name]) < least
    \/ \E i \in 1..Len(node[field_name]) : Len(node[field_name][i]) # dim

InvalidPrimitive(node, dim) ==
    \/ ~Has(node, "type")
    \/ node.type \notin {"ball", "capsule", "torus", "duchon", "implicit_union"}
    \/ /\ node.type = "ball"
       /\ ~Has(node, "radius") \/ InvalidArray(node, "center", dim)
    \/ /\ node.type = "capsule"
       /\ \/ ~Has(node, "radius")
          \/ InvalidArray(node, "start", dim)
          \/ InvalidArray(node, "end", dim)
    \/ /\ node.type = "implicit_union"
       /\ \/ ~Has(node, "primitives")
          \/ Len(node.primitives) < 2
          \/ \E i \in 1..Len(node.primitives) : InvalidPrimitive(node.primitives[i], dim)

InvalidTransform(node, dim) ==
    \/ ~Has(node, "type")
    \/ node.type \notin {"translation", "scale", "rotation", "compose", "polyline",
                         "polybezier"}
    \/ node.type = "translation" /\ InvalidArray(node, "vector", dim)
    \/ node.type = "scale" /\ InvalidArray(node, "factors", dim)
    \/ node.type = "polyline" /\ InvalidPoints(node, "points", dim, 2)
    \/ /\ node.type = "polybezier"
       /\ IF Has(node, "control_points")
          THEN \/ InvalidPoints(node, "control_points", dim, 4)
               \/ (Len(node.control_points) - 1) % 3 # 0
          ELSE InvalidPoints(node, "sample_points", dim, 3)
    \/ /\ node.type = "compose"
       /\ \/ ~Has(node, "transforms")
          \/ \E i \in 1..Len(node.transforms) : InvalidTransform(node.transforms[i], dim)

InvalidFunction(node, dim) ==
    \/ Has(node, "dimension") /\ node.dimension # dim
    \/ ~Has(node, "type")
    \/ node.type \notin {"explicit", "sweep", "offset", "union", "interpolate"}
    \/ /\ node.type = "sweep"
       /\ \/ ~Has(node, "primitive")
          \/ ~Has(node, "transform")
          \/ InvalidPrimitive(node.primitive, dim)
          \/ InvalidTransform(node.transform, dim)
    \/ /\ node.type = "union"
       /\ \/ ~Has(node, "functions")
          \/ Len(node.functions) < 2
          \/ \E i \in 1..Len(node.functions) : InvalidFunction(node.functions[i], dim)
    \/ /\ node.type = "offset"
       /\ \/ ~Has(node, "base_function")
          \/ ~Has(node, "offset_function") /\ ~Has(node, "offset")
          \/ Has(node, "base_function") /\ InvalidFunction(node.base_function, dim)
    \/ /\ node.type = "interpolate"
       /\ \/ ~Has(node, "function1")
          \/ ~Has(node, "function2")
          \/ InvalidFunction(node.function1, dim)
          \/ InvalidFunction(node.function2, dim)

\* C24: parse_from_string raises YamlParseError and returns no function for
\* every structurally invalid scene: a missing required field, an unknown
\* function, primitive or transform type, a dimension that is not the parser's,
\* an array whose length is not the dimension, a polyline of fewer than 2
\* points, a PolyBezier of fewer than 4 or not 3k+1 control points or fewer than
\* 3 sample points, a union of fewer than 2 functions.
C24_InvalidScenesRaiseYamlParseError ==
    (pc = "done" /\ query.method = "parse_from_string"
        /\ InvalidFunction(query.node, query.dim)) =>
        (result.status = "YamlParseError" /\ obj = NoObject)

\* C25: an offset scene with the scalar fields offset and offset_derivative and
\* no offset_function, over a base function that parses, is accepted:
\* parse_from_string returns a function.
C25_ScalarOffsetAccepted ==
    (pc = "done" /\ query.method = "parse_from_string"
        /\ Has(query.node, "type") /\ query.node.type = "offset"
        /\ Has(query.node, "offset") /\ Has(query.node, "offset_derivative")
        /\ ~Has(query.node, "offset_function")
        /\ Has(query.node, "base_function")
        /\ parse_from_string(query.node.base_function, query.dim).status = "ok") =>
        (result.status = "ok" /\ obj.type = "unique_ptr")

-----------------------------------------------------------------------------
(* Segment lookup *)

\* the number of segments of a curve
Curve_num_segments(T) ==
    IF T.type = "Polyline" THEN Len(T.m_points) - 1 ELSE (Len(T.m_points) - 1) \div 3

Curve_find(T, t) ==
    IF T.type = "Polyline" THEN Polyline_find_segment(T, t) ELSE PolyBezier_find_bezier(T, t)

\* the point of the path the evaluation methods subtract from pos:
\* p0 + alpha * (p1 - p0) on a Polyline, bezier(control_points, alpha) on a PolyBezier
Curve_point(T, segment, alpha) ==
    IF T.type = "Polyline"
    THEN addVec(T.m_points[segment + 1],
                scaleVec(subtract(T.m_points[segment + 2], T.m_points[segment + 1]), alpha))
    ELSE bezier(PolyBezier_control_points(T.m_points, segment), alpha)

\* the lookup of time t on a curve of N segments
SegmentLookupHolds(T, t, N, found) ==
    /\ found.segment \in 0..(N - 1)
    /\ Add(Num(found.segment), found.alpha) = Mul(t, Num(N))
    /\ (Ge(t, Zero) /\ Le(t, One)) => (Ge(found.alpha, Zero) /\ Le(found.alpha, One))
    /\ Lt(t, Zero) => (found.segment = 0 /\ Lt(found.alpha, Zero))
    /\ Gt(t, One) => (found.segment = N - 1 /\ Gt(found.alpha, One))
    /\ \A j \in 0..N : Mul(t, Num(N)) = Num(j) =>
           /\ j >= 1 => Curve_point(T, found.segment, found.alpha) = Curve_point(T, j - 1, One)
           /\ j < N => Curve_point(T, found.segment, found.alpha) = Curve_point(T, j, Zero)

\* C26: on a curve of N segments the lookup of every t returns an index in
\* 0..N-1 and a fraction alpha with index + alpha = t N; alpha is in [0, 1] for t
\* in [0, 1]; the index is 0 with alpha < 0 for t < 0 and N - 1 with alpha > 1
\* for t > 1; at a breakpoint t = j/N the point of the path is the end point of
\* segment j - 1 and the start point of segment j.
C26_SegmentLookup ==
    (pc = "done" /\ obj.type \in CurveTypes
        /\ query.method \in {"transform", "velocity", "position_Jacobian"}) =>
        SegmentLookupHolds(obj, query.t, Curve_num_segments(obj), Curve_find(obj, query.t))

\* a call at the inner breakpoint of a curve of two Beziers, and the lookup
\* puts it at the start of the second one
C26_Witness ==
    /\ pc = "done"
    /\ obj.type = "PolyBezier"
    /\ Len(obj.m_points) = 7
    /\ query.method = "transform"
    /\ query.t = Half
    /\ PolyBezier_find_bezier(obj, query.t) = [segment |-> 1, alpha |-> Zero]

-----------------------------------------------------------------------------
(* Frames of a PolyBezier *)

\* bezier_velocity of velocity(pos, t): the derivative of the Bezier that holds t
PolyBezier_bezier_velocity(T, t) ==
    bezier_derivative(PolyBezier_control_points(T.m_points, PolyBezier_find_bezier(T, t).segment),
                      PolyBezier_find_bezier(T, t).alpha)

\* bezier_acceleration of velocity(pos, t)
PolyBezier_bezier_acceleration(T, t) ==
    bezier_second_derivative(
        PolyBezier_control_points(T.m_points, PolyBezier_find_bezier(T, t).segment),
        PolyBezier_find_bezier(T, t).alpha)

\* C27: velocity of a PolyBezier that follows its tangent, at a point where the
\* speed |B'(alpha)| is below 1e-10, returns normally, and the frame derivative
\* it uses is the zero matrix.
C27_ZeroSpeedVelocityReturns ==
    (/\ pc = "done"
     /\ obj.type = "PolyBezier"
     /\ obj.m_follow_tangent
     /\ query.method = "velocity"
     /\ PolyBezier_bezier_velocity(obj, query.t) = [i \in 1..DimOf(obj) |-> Zero]) =>
        /\ result.status = "ok"
        /\ PolyBezier_get_frame_derivative(identityMatrix(DimOf(obj)),
                                           PolyBezier_bezier_velocity(obj, query.t),
                                           PolyBezier_bezier_acceleration(obj, query.t))
               = zeroMatrix(DimOf(obj))

\* the frame index get_frame computes for time t
PolyBezier_frame_index_at(T, t, ub) ==
    PolyBezier_frame_index(PolyBezier_find_bezier(T, t).segment,
                           PolyBezier_find_bezier(T, t).alpha, ub)

\* column dim - 1 (0-based) of a frame
LastColumn(frame) == [i \in 1..Len(frame) |-> frame[i][Len(frame)]]

\* C28: the vector get_frame rotates from is column dim - 1 of the reference
\* frame, and every index it reads lies inside the dim x dim frame, in 2D and 3D:
\* for t in [0, 1] no evaluation reads outside the frame.
C28_FromVectorIsLastColumn ==
    (/\ pc = "done"
     /\ obj.type = "PolyBezier"
     /\ obj.m_follow_tangent
     /\ query.method \in {"transform", "velocity", "position_Jacobian"}
     /\ Ge(query.t, Zero) /\ Le(query.t, One)) =>
        /\ result.status # "fault"
        /\ \A ub \in UBOutcomes :
               PolyBezier_from_vec(obj, PolyBezier_frame_index_at(obj, query.t, ub),
                   PolyBezier_ref_frame(obj, PolyBezier_frame_index_at(obj, query.t, ub), ub),
                   ub)
               = LastColumn(PolyBezier_ref_frame(
                                obj, PolyBezier_frame_index_at(obj, query.t, ub), ub))

-----------------------------------------------------------------------------
(* get_frame_derivative on its own *)

\* an orthonormal frame whose last column is the unit tangent sign * e_k: in 2D
\* the columns are (N1, T) with N1 = (T_y, -T_x), in 3D (N1, N2, T) with
\* N1 = e_(k+1) and N2 = T x N1
FrameTangent(dim, k, sign) == scaleVec(Axis(dim, k), Num(sign))

FrameAlong(dim, k, sign) ==
    IF dim = 2
    THEN << << FrameTangent(2, k, sign)[2], FrameTangent(2, k, sign)[1] >>,
            << Neg(FrameTangent(2, k, sign)[1]), FrameTangent(2, k, sign)[2] >> >>
    ELSE [i \in 1..3 |->
             << Axis(3, (k % 3) + 1)[i],
                cross(FrameTangent(3, k, sign), Axis(3, (k % 3) + 1))[i],
                FrameTangent(3, k, sign)[i] >>]

FrameAccelerations(dim) ==
    {Vec(dim, <<x, y, z>>) : x \in -MaxCoord..MaxCoord, y \in -MaxCoord..MaxCoord,
                             z \in -MaxCoord..MaxCoord}

\* get_frame_derivative(frame, bezier_velocity, bezier_acceleration) with the
\* frame of a point that moves along its tangent at speed 0..MaxTick
FrameDerivative ==
    /\ pc = "idle"
    /\ \E dim \in Dims : \E k \in 1..dim : \E sign \in {-1, 1} : \E speed \in 0..MaxTick :
       \E bezier_acceleration \in FrameAccelerations(dim) :
           /\ query' = [method |-> "get_frame_derivative",
                        frame |-> FrameAlong(dim, k, sign),
                        bezier_velocity |-> scaleVec(FrameTangent(dim, k, sign), Num(speed)),
                        bezier_acceleration |-> bezier_acceleration]
           /\ result' = [status |-> "ok",
                         value |-> PolyBezier_get_frame_derivative(
                                       FrameAlong(dim, k, sign),
                                       scaleVec(FrameTangent(dim, k, sign), Num(speed)),
                                       bezier_acceleration)]
    /\ pc' = "done"
    /\ UNCHANGED <<build, obj>>

NextFrame ==
    \/ FrameDerivative
    \/ Return

SpecFrame == Init /\ [][NextFrame]_vars

\* column j (1-based) of a matrix
Column(M, j) == [i \in 1..Len(M) |-> M[i][j]]

\* M + transpose(M) = 0
IsSkewSymmetric(M) ==
    \A i \in 1..Len(M) : \A j \in 1..Len(M) : Add(M[i][j], M[j][i]) = Zero

\* C29: get_frame_derivative uses in 2D the rotation rate of 3D: the derivative
\* of every normal column N_i is -(dT . N_i) T, with dT the last column of the
\* result, so transpose(frame) * result is skew-symmetric at any speed.
C29_FrameDerivativeSkew ==
    (pc = "done" /\ query.method = "get_frame_derivative") =>
        /\ \A j \in 1..(Len(query.frame) - 1) :
               Column(result.value, j)
                   = scaleVec(Column(query.frame, Len(query.frame)),
                              Neg(dot(Column(result.value, Len(query.frame)),
                                      Column(query.frame, j))))
        /\ IsSkewSymmetric(multiply(transpose(query.frame), result.value))

-----------------------------------------------------------------------------
(* Unions at a tie *)

=============================================================================
